---- MODULE Spec2Model ----
\* Order lifecycle and shipment reconciliation of the seller portal
\* (src/routes/seller.js, first snapshot, lines 1-1697).
\*
\* One order owned by seller "A", its Shipment documents, the products of
\* its line items, one ReturnRequest, and the remote shipping provider and
\* payment gateway seen through the calls the handlers make.
\*
\* A document save follows the ODM's delta semantics: it $set-s the paths the
\* handler assigned and $push-es the entries the handler pushed; it carries no
\* condition on the document's previous contents.
EXTENDS Integers, Sequences, FiniteSets, TLC

VARIABLES
  order,       \* the persisted Order document
  shipments,   \* the persisted Shipment documents of the order, in insertion order
  stock,       \* Product.stock of each line item's product
  orderCount,  \* Product.orderCount of each line item's product
  returnReq,   \* the persisted ReturnRequest of the order
  seller,      \* the Seller document of the order's owner
  remote,      \* calls made so far to the shipping provider and the payment gateway
  budget,      \* document saves that may still fail
  env,         \* the replies the provider, the gateway and the customer may give
  inflight,    \* requests suspended at an await, with the document they loaded
  resp         \* the response of the last request

vars == <<order, shipments, stock, orderCount, returnReq, seller, remote, budget, env, inflight, resp>>

\* ---------------------------------------------------------------- bounds
MaxSaveFailures == 1
MaxShipHist == 3
MaxInflight == 2
MaxServed == 2

\* ---------------------------------------------------------------- data
\* the seller who owns the order
Owner == "A"
\* another authenticated seller, who owns none of the documents
Intruder == "B"
Tenants == {Owner, Intruder}
\* the sellers whose requests a specification draws
Actors == {Owner}
Slots == 1 .. MaxInflight

\* order.items: two line items of different quantity
Items == << [productId |-> "p1", quantity |-> 1], [productId |-> "p2", quantity |-> 2] >>
Products == {Items[i].productId : i \in 1 .. Len(Items)}

QuantityOf(p) == LET i == CHOOSE j \in 1 .. Len(Items) : Items[j].productId = p IN Items[i].quantity

OrderStatuses == {"pending", "confirmed", "processing", "shipped", "delivered", "cancelled"}

Min(a, b) == IF a <= b THEN a ELSE b
Max(a, b) == IF a >= b THEN a ELSE b

\* res.status(code).json({message, ...}); body is the document returned, if any
\* arg: the request's input (the target status, the courier rate)
\* calls: the provider and gateway calls the request made
Response(op, u, arg, code, msg, body, calls) ==
  [op |-> op, user |-> u, arg |-> arg, code |-> code, msg |-> msg, body |-> body, calls |-> calls]

NoBody == [none |-> TRUE]
\* a free request slot that has served n suspended requests
Idle(n) == [pc |-> "idle", served |-> n]

\* ---------------------------------------------------------------- order status
\* the transition table of PUT /orders/:id/status
transitions(s) ==
  CASE s = "pending"    -> {"confirmed", "cancelled"}
    [] s = "confirmed"  -> {"processing", "shipped", "cancelled"}
    [] s = "shipped"    -> {"delivered"}
    [] s = "processing" -> {"shipped", "cancelled"}
    [] OTHER            -> {}

\* server/utils/orderStatus.isValidTransition: the same edges
isValidTransition(from, to) == to \in transitions(from)

pickedUpShort == {"picked_up", "in_transit", "out_for_delivery"}

\* the Shipment statuses in which the courier holds the package
pickedUp == {"picked_up", "in_transit", "out_for_delivery", "delivered"}

FindOrderOfAnySeller(u) == TRUE

\* Order.findOne({_id, sellerId: req.user._id})
FindOrder(u) == order.sellerId = u

\* Shipment.findOne({orderId, sellerId: req.user._id}): index of the first match, 0 if none
FindShipment(u) ==
  IF \E i \in 1 .. Len(shipments) : shipments[i].sellerId = u
  THEN CHOOSE i \in 1 .. Len(shipments) :
         /\ shipments[i].sellerId = u
         /\ \A j \in 1 .. (i - 1) : shipments[j].sellerId # u
  ELSE 0

HistoryEntry(status, u) == [status |-> status, changedBy |-> u]

\* ReturnRequest.findById finds nothing while status is "none"
NoReturn ==
  [status |-> "none", sellerId |-> Owner, type |-> "return", refundAmount |-> 0,
   refundId |-> "", rejectionReason |-> "", statusHistory |-> << >>, resolvedAt |-> FALSE]

ReturnEntry(status, u, note) == [status |-> status, changedBy |-> u, note |-> note]

\* ---------------------------------------------------------------- Init
\* the order as the checkout leaves it: pending, with its stock reserved
\* (and, when paid, its units counted)
NewOrder(pay, cfo, by) ==
  [sellerId |-> Owner, status |-> "pending", paymentStatus |-> pay,
   cashfreeOrderId |-> cfo, totalAmount |-> 10,
   shippingPaidBy |-> by, shippingCost |-> 5, actualShippingCost |-> 0,
   trackingInfo |-> NoBody, deliveryPincode |-> "560001",
   orderType |-> "b2c", customerEmail |-> "buyer@example.com",
   statusHistory |-> << HistoryEntry("pending", "system") >>,
   returnStatus |-> "none", refundId |-> "",
   cancelledAt |-> FALSE, deliveredAt |-> FALSE]

InitOrder(pay, cfo, by) == order = NewOrder(pay, cfo, by)

InitRest ==
  /\ shipments = << >>
  /\ stock = [p \in Products |-> 0]
  /\ orderCount = [p \in Products |-> IF order.paymentStatus = "paid" THEN QuantityOf(p) ELSE 0]
  /\ returnReq = NoReturn
  /\ remote = [creates |-> 0, cancelled |-> {}, cancelRefunds |-> 0, returnRefunds |-> 0]
  /\ inflight = [s \in Slots |-> Idle(0)]
  /\ resp = Response("none", Owner, "", 0, "", NoBody, {})

\* the seller has a registered, phone-verified pickup location
VerifiedSeller ==
  [shiprocketPickupVerified |-> TRUE, shiprocketPickupLocation |-> "warehouse", pickupPincode |-> "110001"]

\* getCashfreeOrder: order_amount below and above the order's total, 0 when
\* the reply carries none, -1 when the call throws
GatewayAmounts == {-1, 0, 8, 12}

\* the message of a schedulePickup error, by the keywords it contains
PickupErrors ==
  { {"already", "scheduled", "pickup"},   \* "Pickup already scheduled"
    {"pickup"},                           \* "Invalid pickup location"
    {} }                                  \* "Internal error"

\* the provider's reply to schedulePickup as a number: 0 when it succeeded,
\* else the number of keywords its error message carries
PickupReplyCode(pk) == IF pk.ok THEN 0 ELSE 1 + Cardinality(pk.err)

\* schedulePickup returns, or throws an error with one of the messages
PickupReplies == {[ok |-> TRUE, err |-> {}]} \cup {[ok |-> FALSE, err |-> e] : e \in PickupErrors}

\* the emails and notifications the handlers send after a transition
SideEffects ==
  {"sendDeliveredEmail", "sendShippedEmail", "sendCorporateOrderStatusEmail", "createNotification"}

\* the emails are awaited inside a try/catch of their own, which logs
CaughtAtCallSite == {"sendDeliveredEmail", "sendShippedEmail", "sendCorporateOrderStatusEmail"}

\* createNotification is called without await: its failure is a rejection
\* nobody waits for
FireAndForget == {"createNotification"}

NothingCaught(failed) == failed

\* the failed side effects whose error reaches the handler's catch
Uncaught(failed) == failed \ (CaughtAtCallSite \cup FireAndForget)

\* the side-effect calls of a request and how each ended: 0 sent, -1 failed
EffectCalls(effects, failed) == {<<e, IF e \in failed THEN -1 ELSE 0>> : e \in effects}

\* the return and exchange requests a customer may open: <<type, refundAmount>>
ReturnKinds == {<<"return", 5>>, <<"return", 0>>, <<"exchange", 0>>}

\* every provider and gateway call may fail or reply in any of its shapes
Unreliable ==
  [cancelReplies |-> BOOLEAN, refundReplies |-> BOOLEAN, gatewayAmounts |-> GatewayAmounts,
   locationReplies |-> {"throw", "unverified", "verified"},
   createReplies |-> {"throw", "noOrderId", "noShipmentId", "full"},
   detailReplies |-> {"throw", "none", "found"},
   assignReplies |-> {"throw", "noAwb", "ok"},
   pickupReplies |-> PickupReplies,
   effectFailures |-> {{}},
   returns |-> {}]

\* the provider replies in full; the gateway's refund may still fail
Reliable ==
  [cancelReplies |-> {TRUE}, refundReplies |-> BOOLEAN, gatewayAmounts |-> {12},
   locationReplies |-> {"verified"},
   createReplies |-> {"full"},
   detailReplies |-> {"found"},
   assignReplies |-> {"ok"},
   pickupReplies |-> {[ok |-> TRUE, err |-> {}]},
   effectFailures |-> {{}},
   returns |-> ReturnKinds]

\* orders and shipments against an unreliable provider; every save succeeds
Init ==
  /\ \E pay \in {"pending", "paid"}, cfo \in {"", "cf_order"} : InitOrder(pay, cfo, "seller")
  /\ seller = VerifiedSeller
  /\ budget = 0
  /\ env = Unreliable
  /\ InitRest

\* orders, shipments and returns against a reliable provider; every save succeeds
InitReturns ==
  /\ \E pay \in {"pending", "paid"}, cfo \in {"", "cf_order"} : InitOrder(pay, cfo, "seller")
  /\ seller = VerifiedSeller
  /\ budget = 0
  /\ env = Reliable
  /\ InitRest

\* a paid order with a gateway order; provider and gateway reply in full
InitConc ==
  /\ InitOrder("paid", "cf_order", "seller")
  /\ seller = VerifiedSeller
  /\ budget = 0
  /\ env = [Reliable EXCEPT !.refundReplies = {TRUE}]
  /\ InitRest

\* a paid order with a gateway order and two authenticated sellers; provider
\* and gateway reply in full, the customer may ask for a refund
InitTenant ==
  /\ InitOrder("paid", "cf_order", "seller")
  /\ seller = VerifiedSeller
  /\ budget = 0
  /\ env = [Reliable EXCEPT !.refundReplies = {TRUE}, !.returns = {<<"return", 5>>}]
  /\ InitRest

\* a paid order whose shipping is borne by the seller or by the customer, who
\* paid 5 or nothing for it; the provider replies in full but may omit the
\* airway bill
InitCost ==
  /\ \E by \in {"seller", "customer"}, cost \in {0, 5} :
       order = [NewOrder("paid", "", by) EXCEPT !.shippingCost = cost]
  /\ seller = VerifiedSeller
  /\ budget = 0
  /\ env = [Reliable EXCEPT !.assignReplies = {"throw", "noAwb", "ok"}]
  /\ InitRest

\* a paid consumer or B2B order, with or without the customer's email; the
\* provider and the gateway reply in full, any email or notification may fail
InitNotify ==
  /\ \E ot \in {"b2c", "b2b_direct"}, em \in {"", "buyer@example.com"} :
       order = [NewOrder("paid", "cf_order", "seller") EXCEPT !.orderType = ot, !.customerEmail = em]
  /\ seller = VerifiedSeller
  /\ budget = 0
  /\ env = [Reliable EXCEPT !.refundReplies = {TRUE}, !.effectFailures = SUBSET SideEffects]
  /\ InitRest

\* a paid order with a gateway order; up to MaxSaveFailures saves reject
InitFail ==
  /\ InitOrder("paid", "cf_order", "seller")
  /\ seller = VerifiedSeller
  /\ budget = MaxSaveFailures
  /\ env = Reliable
  /\ InitRest

\* the seller has saved no pickup address yet
NewSeller ==
  [shiprocketPickupVerified |-> FALSE, shiprocketPickupLocation |-> "", pickupPincode |-> "110001"]

\* an order of a seller who has yet to register and verify a pickup location;
\* the provider's location lookup replies in any of its shapes and up to
\* MaxSaveFailures saves reject
InitPickup ==
  /\ \E pay \in {"pending", "paid"} : InitOrder(pay, "cf_order", "seller")
  /\ seller = NewSeller
  /\ budget = MaxSaveFailures
  /\ env = [Reliable EXCEPT !.locationReplies = {"throw", "absent", "unverified", "verified"},
                            !.createReplies = {"throw", "noOrderId", "noShipmentId", "full"}]
  /\ InitRest

\* the outcomes of a request's saves: all succeed, or one of the saves in
\* which rejects (while the budget of failures lasts)
SaveOutcomes(which) == {"ok"} \cup (IF budget > 0 THEN which ELSE {})


\* ---------------------------------------------------------------- PUT /orders/:id/status
StatusNeverRejected(u, status) ==
  IF ~FindOrder(u) THEN Response("status", u, status, 404, "Order not found", NoBody, {})
  ELSE NoBody

\* the checks made on the freshly loaded order, before the first mutation:
\* the response of a rejected request, NoBody when the request goes on
StatusReject(u, status) ==
  IF ~FindOrder(u) THEN Response("status", u, status, 404, "Order not found", NoBody, {})
  ELSE IF status \notin transitions(order.status)
       THEN Response("status", u, status, 400, "InvalidTransition", NoBody, {})
       ELSE NoBody

CancelledOnlyIfRemote(rc) == rc

\* the Shipment is cancelled locally after the remote cancel, whose failure
\* is caught and logged
LocallyCancelled(rc) == TRUE

RefundedEitherWay(rf) == "refunded"

\* order.paymentStatus after the refund attempt of the cancel branch
PaymentAfterRefund(rf) == IF rf THEN "refunded" ELSE "refund_pending"

RefundTotal(total, cf) == total

\* refundAmount of the cancel branch: cf is the gateway's order_amount,
\* 0 when the reply has none, -1 when getCashfreeOrder throws
RefundAmount(total, cf) == IF cf > 0 THEN Min(total, cf) ELSE total

\* the delivered email is sent before the order is saved
StatusEffectsBeforeSave(doc, status) ==
  IF status = "delivered" /\ doc.customerEmail # "" THEN {"sendDeliveredEmail"} ELSE {}

\* the B2B status email and the customer's notification follow the save
StatusEffectsAfterSave(doc, status) ==
  (IF doc.orderType = "b2b_direct" /\ status \in {"shipped", "delivered", "cancelled"}
      /\ doc.customerEmail # ""
   THEN {"sendCorporateOrderStatusEmail"} ELSE {})
  \cup (IF status \in {"delivered", "shipped", "cancelled"} THEN {"createNotification"} ELSE {})

\* the handler from `order.status = status` on, run on the loaded document doc
\*   rc: cancelShiprocketOrder succeeds   cf: getCashfreeOrder reply
\*   rf: createRefund succeeds            sv: which save rejects
\*   failed: the side effects that fail
UpdateStatusBody(u, doc, status, rc, cf, rf, sv, failed) ==
  LET k == FindShipment(u)
      before == StatusEffectsBeforeSave(doc, status)
      after == StatusEffectsAfterSave(doc, status)
      aborted == Uncaught(failed \cap before) # {}
      lost == Uncaught(failed \cap after) # {}
      cancel == status = "cancelled"
      booked == cancel /\ k # 0 /\ shipments[k].shiprocketOrderId # 0
      blocked == booked /\ shipments[k].status \in pickedUp
      refunding == cancel /\ doc.paymentStatus = "paid" /\ doc.cashfreeOrderId # ""
      refundAmount == RefundAmount(doc.totalAmount, cf)
      calls == (IF booked THEN {<<"cancelShiprocketOrder", shipments[k].shiprocketOrderId>>,
                                <<"cancelShiprocketOrderReply", IF rc THEN 0 ELSE -1>>} ELSE {})
               \cup (IF refunding /\ sv # "shipment"
                     THEN {<<"getCashfreeOrder", 0>>, <<"cashfreeOrderAmount", cf>>,
                           <<"createRefund", refundAmount>>} ELSE {})
      saved == [order EXCEPT
                  !.status = status,
                  !.cancelledAt = IF cancel THEN TRUE ELSE @,
                  !.deliveredAt = IF status = "delivered" THEN TRUE ELSE @,
                  !.paymentStatus = IF refunding THEN PaymentAfterRefund(rf) ELSE @,
                  !.refundId = IF refunding /\ rf THEN "refund_cancel" ELSE @,
                  !.statusHistory = Append(@, HistoryEntry(status, u))]
  IN
  /\ IF blocked
     THEN /\ resp' = Response("status", u, status, 400, "CancellationBlocked", NoBody, {})
          /\ UNCHANGED <<order, shipments, stock, orderCount, remote, budget>>
     ELSE /\ remote' = [remote EXCEPT
                 !.cancelled = IF booked /\ rc THEN @ \cup {shipments[k].shiprocketOrderId} ELSE @,
                 !.cancelRefunds = IF refunding /\ rf /\ sv # "shipment" THEN @ + 1 ELSE @]
          /\ budget' = IF sv = "ok" THEN budget ELSE budget - 1
          /\ IF sv = "shipment"
             THEN /\ UNCHANGED <<order, shipments, stock, orderCount>>
                  /\ resp' = Response("status", u, status, 500, "Server error", NoBody, calls)
             ELSE /\ shipments' = IF booked /\ LocallyCancelled(rc)
                                  THEN [shipments EXCEPT ![k].status = "cancelled",
                                                         ![k].statusHistory = Append(@, "cancelled")]
                                  ELSE shipments
                  /\ stock' = IF cancel
                              THEN [p \in Products |-> stock[p] + QuantityOf(p)] ELSE stock
                  /\ orderCount' = IF cancel /\ doc.paymentStatus = "paid"
                                   THEN [p \in Products |-> orderCount[p] - QuantityOf(p)]
                                   ELSE orderCount
                  /\ IF sv = "order" \/ aborted
                     THEN /\ UNCHANGED order
                          /\ resp' = Response("status", u, status, 500, "Server error", NoBody,
                                              calls \cup EffectCalls(before, failed))
                     ELSE /\ order' = saved
                          /\ resp' = IF lost
                                     THEN Response("status", u, status, 500, "Server error", NoBody,
                                                   calls \cup EffectCalls(before \cup after, failed))
                                     ELSE Response("status", u, status, 200, "Order updated", saved,
                                                   calls \cup EffectCalls(before \cup after, failed))
  /\ UNCHANGED <<returnReq, seller>>

\* the outcomes of the calls the handler makes on doc: only the calls it
\* reaches are drawn
UpdateStatusRun(u, doc, status) ==
  LET k == FindShipment(u)
      cancel == status = "cancelled"
      booked == cancel /\ k # 0 /\ shipments[k].shiprocketOrderId # 0
      blocked == booked /\ shipments[k].status \in pickedUp
      refunding == cancel /\ doc.paymentStatus = "paid" /\ doc.cashfreeOrderId # ""
  IN
  \E rc \in IF booked /\ ~blocked THEN env.cancelReplies ELSE {TRUE},
     sv \in IF blocked THEN {"ok"} ELSE SaveOutcomes({"order"} \cup IF booked THEN {"shipment"} ELSE {}) :
    \E rf \in IF refunding /\ ~blocked /\ sv # "shipment" THEN env.refundReplies ELSE {TRUE},
       cf \in IF refunding /\ ~blocked /\ sv # "shipment" THEN env.gatewayAmounts ELSE {0},
       failed \in IF blocked \/ sv = "shipment" THEN {{}}
                  ELSE {f \cap (StatusEffectsBeforeSave(doc, status)
                                \cup IF sv = "ok" THEN StatusEffectsAfterSave(doc, status) ELSE {})
                        : f \in env.effectFailures} :
      UpdateStatusBody(u, doc, status, rc, cf, rf, sv, failed)

UpdateStatus(u, status) ==
  /\ IF StatusReject(u, status) # NoBody
     THEN /\ resp' = StatusReject(u, status)
          /\ UNCHANGED <<order, shipments, stock, orderCount, returnReq, seller, remote, budget>>
     ELSE UpdateStatusRun(u, order, status)
  /\ UNCHANGED <<inflight, env>>

\* ---------------------------------------------------------------- PUT /orders/:id/ship
ShipReject(u) ==
  IF ~FindOrder(u) THEN Response("ship", u, "", 404, "Order not found", NoBody, {})
  ELSE IF ~isValidTransition(order.status, "shipped")
       THEN Response("ship", u, "", 400, "InvalidTransition", NoBody, {})
       ELSE NoBody

\* the shipped email, the B2B status email and the customer's notification
\* follow the save
ShipEffects(doc) ==
  (IF doc.customerEmail # "" THEN {"sendShippedEmail"} ELSE {})
  \cup (IF doc.orderType = "b2b_direct" /\ doc.customerEmail # ""
        THEN {"sendCorporateOrderStatusEmail"} ELSE {})
  \cup {"createNotification"}

\* trk: the courierName and trackingNumber of the request body
\* failed: the side effects that fail
ShipBody(u, doc, trk, sv, failed) ==
  LET saved == [order EXCEPT
                  !.status = "shipped",
                  !.trackingInfo = trk,
                  !.statusHistory = Append(@, HistoryEntry("shipped", u))]
      calls == EffectCalls(ShipEffects(doc), failed)
  IN
  /\ budget' = IF sv = "ok" THEN budget ELSE budget - 1
  /\ IF sv = "order"
     THEN /\ UNCHANGED order
          /\ resp' = Response("ship", u, "", 500, "Server error", NoBody, {})
     ELSE /\ order' = saved
          /\ resp' = IF Uncaught(failed) # {}
                     THEN Response("ship", u, "", 500, "Server error", NoBody, calls)
                     ELSE Response("ship", u, "", 200, "Order marked as shipped", saved, calls)
  /\ UNCHANGED <<shipments, stock, orderCount, returnReq, seller, remote>>

ShipRun(u, doc, trk) ==
  \E sv \in SaveOutcomes({"order"}) :
    \E failed \in IF sv = "ok" THEN {f \cap ShipEffects(doc) : f \in env.effectFailures} ELSE {{}} :
      ShipBody(u, doc, trk, sv, failed)

ShipOrder(u, trk) ==
  /\ IF ShipReject(u) # NoBody
     THEN /\ resp' = ShipReject(u)
          /\ UNCHANGED <<order, shipments, stock, orderCount, returnReq, seller, remote, budget>>
     ELSE ShipRun(u, order, trk)
  /\ UNCHANGED <<inflight, env>>

\* req.body of a manual ship request
TrackingInputs == { [courierName |-> "Delhivery", trackingNumber |-> "TRK1"] }

\* ---------------------------------------------------------------- POST /shipping/:orderId/create
Unclamped(lo, hi, dflt, x) == x

\* Number(x) || dflt, clamped: a missing, zero or non-numeric x reads as 0
Clamp(lo, hi, dflt, x) == Max(lo, Min(hi, IF x = 0 THEN dflt ELSE x))

ClampWeight(x) == Clamp(50, 50000, 500, x)
ClampDimension(x) == Clamp(1, 200, 10, x)

\* req.body of a create request
CreateBodies == { [weight |-> 60000, length |-> 0, width |-> 7, height |-> -3] }

\* weights and dimensions below, at, inside and above the accepted ranges;
\* 0 also stands for a missing or non-numeric value
RequestedWeights == {-5, 0, 49, 50, 600, 50000, 50001}
RequestedDimensions == {-3, 0, 1, 7, 200, 201}

\* req.body with every combination of them
AllCreateBodies ==
  { [weight |-> w, length |-> l, width |-> b, height |-> h] :
      w \in RequestedWeights, l \in RequestedDimensions,
      b \in RequestedDimensions, h \in RequestedDimensions }

\* Shipment.findOne({orderId}): index of the first Shipment of the order, 0 if none
FindShipmentOfOrder == IF Len(shipments) > 0 THEN 1 ELSE 0

\* new Shipment({orderId, sellerId}) with the schema's defaults
NewShipment(u) ==
  [sellerId |-> u, shiprocketOrderId |-> 0, shiprocketShipmentId |-> 0,
   awbCode |-> "", courierName |-> "", courierId |-> 0, shippingCharge |-> 0,
   weight |-> 0, dimensions |-> [length |-> 0, width |-> 0, height |-> 0],
   status |-> "none", statusHistory |-> << >>, pickupScheduledAt |-> FALSE, labelUrl |-> ""]

CreateRejectUnguarded(u) ==
  IF order.sellerId # u THEN Response("create", u, "", 403, "Not your order", NoBody, {})
  ELSE IF order.paymentStatus # "paid" THEN Response("create", u, "", 400, "Order not paid", NoBody, {})
  ELSE NoBody

CreateRejectPaidOrNot(u) ==
  LET k == FindShipmentOfOrder IN
  IF order.sellerId # u THEN Response("create", u, "", 403, "Not your order", NoBody, {})
  ELSE IF k # 0 /\ shipments[k].shiprocketOrderId # 0
       THEN Response("create", u, "", 400, "Shipment already created", shipments[k], {})
       ELSE NoBody

\* the checks made before the seller is loaded; existing is read here
CreateReject(u) ==
  LET k == FindShipmentOfOrder IN
  IF order.sellerId # u THEN Response("create", u, "", 403, "Not your order", NoBody, {})
  ELSE IF order.paymentStatus # "paid" THEN Response("create", u, "", 400, "Order not paid", NoBody, {})
  ELSE IF k # 0 /\ shipments[k].shiprocketOrderId # 0
       THEN Response("create", u, "", 400, "Shipment already created", shipments[k], {})
       ELSE NoBody

NoWarning(srShipmentId) == ""

\* `warning: !srShipmentId ? '...' : undefined` of the response
Warning(srShipmentId) == IF srShipmentId = 0 THEN "warning" ELSE ""

\* getPickupLocations as the handlers read it for one location name: the call
\* throws, the location is not in the list ("absent"), or it is there with
\* phone_verified unset or set
LocationReplyCode(pv) ==
  IF pv = "verified" THEN 1 ELSE IF pv = "unverified" THEN 0 ELSE IF pv = "absent" THEN 2 ELSE -1

JustVerifiedByAnyLookup(recheck, pv, sv) == recheck

\* the double-check of an unverified seller: the registered location is found
\* with phone_verified === 1 and the seller's save goes through
JustVerified(recheck, pv, sv) == recheck /\ pv = "verified" /\ sv # "seller"

\* the handler from Seller.findById on; existing is the index read by the checks
\*   pv: getPickupLocations reply for the registered location
\*       ("throw", "absent", "unverified", "verified")
\*   fb: the fallback lookup finds a location
\*   cr: createShiprocketOrder reply ("throw", "noOrderId", "noShipmentId", "full")
\*   dt: getShiprocketOrderDetails reply ("throw", "none", "found")
CreateBody(u, existing, body, pv, fb, cr, dt, sv) ==
  LET locationName == seller.shiprocketPickupLocation
      recheck == ~seller.shiprocketPickupVerified /\ locationName # ""
      justVerified == JustVerified(recheck, pv, sv)
      unverified == ~seller.shiprocketPickupVerified /\ ~justVerified
      fallback == ~unverified /\ locationName = ""
      noLocation == fallback /\ ~fb
      submitted == ~unverified /\ ~noLocation
      weight == ClampWeight(body.weight)
      dims == [length |-> ClampDimension(body.length), width |-> ClampDimension(body.width),
               height |-> ClampDimension(body.height)]
      created == submitted /\ cr \in {"noShipmentId", "full"}
      srOrderId == IF created THEN remote.creates + 1 ELSE 0
      requery == created /\ cr = "noShipmentId"
      srShipmentId == IF cr = "full" \/ (requery /\ dt = "found") THEN srOrderId ELSE 0
      base == IF existing # 0 THEN shipments[existing] ELSE NewShipment(u)
      shipment == [base EXCEPT
                     !.shiprocketOrderId = srOrderId,
                     !.shiprocketShipmentId = srShipmentId,
                     !.weight = weight,
                     !.dimensions = dims,
                     !.status = "created",
                     !.statusHistory = Append(@, "created")]
      calls == (IF recheck \/ fallback THEN {<<"getPickupLocations", 0>>} ELSE {})
               \cup (IF recheck THEN {<<"pickupLocationReply", LocationReplyCode(pv)>>} ELSE {})
               \cup (IF submitted
                     THEN {<<"createShiprocketOrder", weight>>, <<"length", dims.length>>,
                           <<"breadth", dims.width>>, <<"height", dims.height>>}
                     ELSE {})
               \cup (IF requery
                     THEN {<<"getShiprocketOrderDetails", srOrderId>>,
                           <<"orderDetailsReply",
                             IF dt = "found" THEN srOrderId ELSE IF dt = "none" THEN 0 ELSE -1>>}
                     ELSE {})
  IN
  /\ seller' = IF justVerified THEN [seller EXCEPT !.shiprocketPickupVerified = TRUE] ELSE seller
  /\ remote' = [remote EXCEPT !.creates = IF created THEN @ + 1 ELSE @]
  /\ budget' = IF sv = "ok" THEN budget ELSE budget - 1
  /\ IF unverified
     THEN /\ resp' = Response("create", u, "", 400, "PICKUP_UNVERIFIED", NoBody, calls)
          /\ UNCHANGED <<order, shipments>>
     ELSE IF noLocation
     THEN /\ resp' = Response("create", u, "", 400, "No pickup location configured", NoBody, calls)
          /\ UNCHANGED <<order, shipments>>
     ELSE IF cr = "throw"
     THEN /\ resp' = Response("create", u, "", 500, "Failed to create shipment", NoBody, calls)
          /\ UNCHANGED <<order, shipments>>
     ELSE IF cr = "noOrderId"
     THEN /\ resp' = Response("create", u, "", 500, "Shiprocket did not return an order ID", NoBody, calls)
          /\ UNCHANGED <<order, shipments>>
     ELSE IF sv = "shipment"
     THEN /\ resp' = Response("create", u, "", 500, "Failed to create shipment", NoBody, calls)
          /\ UNCHANGED <<order, shipments>>
     ELSE /\ shipments' = IF existing # 0 THEN [shipments EXCEPT ![existing] = shipment]
                                          ELSE Append(shipments, shipment)
          /\ IF sv = "order"
             THEN /\ resp' = Response("create", u, "", 500, "Failed to create shipment", NoBody, calls)
                  /\ UNCHANGED order
             ELSE /\ order' = [order EXCEPT !.status = "processing"]
                  /\ resp' = Response("create", u, Warning(srShipmentId),
                                      200, "Shipment created", shipment, calls)
  /\ UNCHANGED <<stock, orderCount, returnReq>>

CreateRun(u, existing, body) ==
  LET locationName == seller.shiprocketPickupLocation
      recheck == ~seller.shiprocketPickupVerified /\ locationName # ""
  IN
  \E pv \in IF recheck THEN env.locationReplies ELSE {"throw"} :
    \E ss \in IF recheck /\ pv = "verified" THEN SaveOutcomes({"seller"}) ELSE {"ok"} :
      LET unverified == ~seller.shiprocketPickupVerified /\ ~JustVerified(recheck, pv, ss)
          fallback == ~unverified /\ locationName = ""
      IN
      \E fb \in IF fallback THEN BOOLEAN ELSE {TRUE} :
        LET submitted == ~unverified /\ ~(fallback /\ ~fb) IN
        \E cr \in IF submitted THEN env.createReplies ELSE {"throw"} :
          \E dt \in IF cr = "noShipmentId" THEN env.detailReplies ELSE {"throw"},
             sv \in IF ss = "seller" THEN {"seller"}
                    ELSE IF cr \in {"noShipmentId", "full"}
                    THEN SaveOutcomes({"shipment", "order"}) ELSE {"ok"} :
            CreateBody(u, existing, body, pv, fb, cr, dt, sv)

CreateShipment(u, body) ==
  /\ IF CreateReject(u) # NoBody
     THEN /\ resp' = CreateReject(u)
          /\ UNCHANGED <<order, shipments, stock, orderCount, returnReq, seller, remote, budget>>
     ELSE CreateRun(u, FindShipmentOfOrder, body)
  /\ UNCHANGED <<inflight, env>>

\* addPickupLocation and updatePickupLocation of PUT /settings, by the
\* shiprocketPickupStatus they end in
RegistrationOutcomes == {"registered", "updated", "exists_update_failed", "failed"}

\* the location name is stored unless the registration failed with an error
\* that is not a duplicate
LocationAfter(name, reg) == IF reg = "failed" THEN name ELSE "warehouse"

\* the stored flag follows phone_verified when the lookup finds the location,
\* and stays as it is when the lookup throws or the location is not listed
FlagAfterLookup(flag, pv) == IF pv \in {"verified", "unverified"} THEN pv = "verified" ELSE flag

\* PUT /settings with a complete pickup address and a phone number, by the
\* order's owner
\*   reg: outcome of the registration, pv: getPickupLocations reply, sv: user.save
SaveSettings(u) ==
  /\ u = Owner
  /\ \E reg \in RegistrationOutcomes, pv \in env.locationReplies, sv \in SaveOutcomes({"seller"}) :
       LET calls == {<<"addPickupLocation", 0>>, <<"getPickupLocations", 0>>,
                     <<"pickupLocationReply", LocationReplyCode(pv)>>}
                    \cup (IF reg \in {"updated", "exists_update_failed"}
                          THEN {<<"updatePickupLocation", 0>>} ELSE {})
       IN
       /\ budget' = IF sv = "ok" THEN budget ELSE budget - 1
       /\ IF sv = "seller"
          THEN /\ resp' = Response("settings", u, reg, 500, "Server error", NoBody, calls)
               /\ UNCHANGED seller
          ELSE /\ seller' = [seller EXCEPT
                               !.shiprocketPickupLocation = LocationAfter(@, reg),
                               !.shiprocketPickupVerified = FlagAfterLookup(@, pv)]
               /\ resp' = Response("settings", u, reg, 200, "Settings updated", NoBody, calls)
  /\ UNCHANGED <<order, shipments, stock, orderCount, returnReq, remote, env, inflight>>

\* POST /shipping/verify-pickup by the order's owner
VerifyPickup(u) ==
  /\ u = Owner
  /\ IF seller.shiprocketPickupLocation = ""
     THEN /\ resp' = Response("verifyPickup", u, "", 400, "No pickup location registered", NoBody, {})
          /\ UNCHANGED <<seller, budget>>
     ELSE \E pv \in env.locationReplies :
            LET calls == {<<"getPickupLocations", 0>>, <<"pickupLocationReply", LocationReplyCode(pv)>>}
                isVerified == pv = "verified"
                changed == pv \in {"verified", "unverified"} /\ seller.shiprocketPickupVerified # isVerified
            IN
            \E sv \in IF changed THEN SaveOutcomes({"seller"}) ELSE {"ok"} :
              /\ budget' = IF sv = "ok" THEN budget ELSE budget - 1
              /\ IF pv = "throw" \/ sv = "seller"
                 THEN /\ resp' = Response("verifyPickup", u, "", 500,
                                          "Failed to check verification status", NoBody, calls)
                      /\ UNCHANGED seller
                 ELSE IF pv = "absent"
                 THEN /\ resp' = Response("verifyPickup", u, "", 200,
                                          "Pickup location not found on Shiprocket", NoBody, calls)
                      /\ UNCHANGED seller
                 ELSE /\ seller' = [seller EXCEPT !.shiprocketPickupVerified = isVerified]
                      /\ resp' = Response("verifyPickup", u, "", 200,
                                          IF isVerified THEN "Pickup address is verified"
                                          ELSE "Pickup address phone is not verified", NoBody, calls)
  /\ UNCHANGED <<order, shipments, stock, orderCount, returnReq, remote, env, inflight>>

\* ---------------------------------------------------------------- POST /shipping/:orderId/assign-courier
\* courierRate of the request body, in tenths of a rupee: 0 when absent
CourierRates == {120}

\* absent, whole and fractional rates
AllCourierRates == {0, 120, 125}

\* Math.round of an amount given in tenths: the nearest whole rupee, halves up
Round(tenths) == (tenths + 5) \div 10

\* `courierRate && courierRate > 0`
RateSupplied(courierRate) == courierRate > 0

AlwaysPresent(shipmentId) == FALSE

\* `!shipment.shiprocketShipmentId` after the self-heal
MissingShipmentId(shipmentId) == shipmentId = 0

\* the self-heal applies to a Shipment with a remote order id and no shipment id
NeedsHeal(sh) == sh.shiprocketShipmentId = 0 /\ sh.shiprocketOrderId # 0

UnhealedShipmentId(sh, dt) == sh.shiprocketShipmentId

\* shipment.shiprocketShipmentId after the self-heal (the provider numbers the
\* shipment of an order like the order)
HealedShipmentId(sh, dt) ==
  IF NeedsHeal(sh) /\ dt = "found" THEN sh.shiprocketOrderId ELSE sh.shiprocketShipmentId

\* what getShiprocketOrderDetails answered: the shipment id, 0 for none, -1 for a throw
DetailsReply(sh, dt) == IF dt = "found" THEN sh.shiprocketOrderId ELSE IF dt = "none" THEN 0 ELSE -1

CostAlways(doc, courierRate) == TRUE

\* the order's actualShippingCost follows the courier's rate
Costed(doc, courierRate) == RateSupplied(courierRate) /\ doc.shippingPaidBy = "seller"

\*   dt: getShiprocketOrderDetails reply ("throw", "none", "found")
\*   ac: shiprocket.assignCourier reply ("throw", "noAwb", "ok")
AssignBody(u, k, courierId, courierRate, dt, ac, sv) ==
  LET sh == shipments[k]
      heal == NeedsHeal(sh)
      shipmentId == HealedShipmentId(sh, dt)
      afterHeal == [sh EXCEPT !.shiprocketShipmentId = shipmentId]
      assigned == [afterHeal EXCEPT
                     !.awbCode = IF ac = "ok" THEN "AWB1" ELSE "",
                     !.courierName = IF ac = "ok" THEN "Delhivery" ELSE "",
                     !.courierId = courierId,
                     !.shippingCharge = IF RateSupplied(courierRate) THEN Round(courierRate) ELSE @,
                     !.statusHistory = Append(@, "courier_assigned")]
      calls == (IF heal THEN {<<"getShiprocketOrderDetails", sh.shiprocketOrderId>>,
                              <<"orderDetailsReply", DetailsReply(sh, dt)>>} ELSE {})
               \cup (IF ~MissingShipmentId(shipmentId)
                     THEN {<<"assignCourier", shipmentId>>} ELSE {})
  IN
  /\ budget' = IF sv = "ok" THEN budget ELSE budget - 1
  /\ IF MissingShipmentId(shipmentId)
     THEN /\ resp' = Response("assign", u, courierRate, 400, "Shipment ID missing", NoBody, calls)
          /\ UNCHANGED <<order, shipments>>
     ELSE IF ac = "throw" \/ sv = "shipment"
     THEN /\ resp' = Response("assign", u, courierRate, 500, "Failed to assign courier", NoBody, calls)
          \* the save of the self-heal is inside its try: a rejection is
          \* logged and the id stays on the loaded document only
          /\ shipments' = IF sv = "heal" THEN shipments ELSE [shipments EXCEPT ![k] = afterHeal]
          /\ UNCHANGED order
     ELSE /\ shipments' = [shipments EXCEPT ![k] = assigned]
          /\ IF sv = "order"
             THEN /\ resp' = Response("assign", u, courierRate, 500, "Failed to assign courier", NoBody, calls)
                  /\ UNCHANGED order
             ELSE /\ order' = IF Costed(order, courierRate)
                              THEN [order EXCEPT !.actualShippingCost = Round(courierRate)] ELSE order
                  /\ resp' = Response("assign", u, courierRate, 200, "Courier assigned", assigned, calls)
  /\ UNCHANGED <<stock, orderCount, returnReq, seller, remote>>

AssignRun(u, k, courierId, courierRate) ==
  LET sh == shipments[k]
      heal == NeedsHeal(sh)
  IN
  \E dt \in IF heal THEN env.detailReplies ELSE {"throw"} :
    LET present == ~MissingShipmentId(HealedShipmentId(sh, dt))
        persisted == heal /\ HealedShipmentId(sh, dt) # sh.shiprocketShipmentId
    IN
    \E ac \in IF present THEN env.assignReplies ELSE {"throw"} :
      \E sv \in SaveOutcomes((IF persisted THEN {"heal"} ELSE {})
                             \cup (IF present /\ ac # "throw" THEN {"shipment"} ELSE {})
                             \cup (IF present /\ ac # "throw" /\ Costed(order, courierRate)
                                   THEN {"order"} ELSE {})) :
        AssignBody(u, k, courierId, courierRate, dt, ac, sv)

AssignCourier(u, courierId, courierRate) ==
  /\ IF FindShipment(u) = 0
     THEN /\ resp' = Response("assign", u, courierRate, 404, "Shipment not found", NoBody, {})
          /\ UNCHANGED <<order, shipments, stock, orderCount, returnReq, seller, remote, budget>>
     ELSE /\ Len(shipments[FindShipment(u)].statusHistory) < MaxShipHist
          /\ AssignRun(u, FindShipment(u), courierId, courierRate)
  /\ UNCHANGED <<inflight, env>>

\* ---------------------------------------------------------------- POST /shipping/:orderId/pickup
NeverTreatedAsScheduled(err) == FALSE

\* errStr.toLowerCase().includes('already') || ...('scheduled') || ...('pickup')
TreatedAsScheduled(err) == "already" \in err \/ "scheduled" \in err \/ "pickup" \in err

AdvanceAlways(status) == TRUE

AdvanceNever(status) == FALSE

\* `if (isValidTransition(order.status, 'shipped'))` of the pickup handler
AdvanceOnPickup(status) == isValidTransition(status, "shipped")

\* the customer is notified when the order was moved to shipped
PickupEffects(advanced) == IF advanced THEN {"createNotification"} ELSE {}

\*   pk: the provider's reply to schedulePickup
\*   fx: the side effects that fail
PickupBody(u, k, pk, sv, fx) ==
  LET sh == shipments[k]
      failed == ~pk.ok /\ ~TreatedAsScheduled(pk.err)
      scheduled == [sh EXCEPT
                      !.status = "pickup_scheduled",
                      !.pickupScheduledAt = TRUE,
                      !.statusHistory = Append(@, "pickup_scheduled")]
      ship == AdvanceOnPickup(order.status)
      saved == [order EXCEPT
                  !.status = "shipped",
                  !.trackingInfo = [courierName |-> sh.courierName, trackingNumber |-> sh.awbCode],
                  !.statusHistory = Append(@, HistoryEntry("shipped", u))]
      calls == {<<"schedulePickup", sh.shiprocketShipmentId>>,
                <<"schedulePickupReply", PickupReplyCode(pk)>>}
      effects == EffectCalls(PickupEffects(ship), fx)
  IN
  /\ budget' = IF sv = "ok" THEN budget ELSE budget - 1
  /\ IF failed
     THEN /\ resp' = Response("pickup", u, "", 500, "Failed to schedule pickup", NoBody, calls)
          /\ UNCHANGED <<order, shipments>>
     ELSE IF sv = "shipment"
     THEN /\ resp' = Response("pickup", u, "", 500, "Failed to schedule pickup", NoBody, calls)
          /\ UNCHANGED <<order, shipments>>
     ELSE /\ shipments' = [shipments EXCEPT ![k] = scheduled]
          /\ IF sv = "order"
             THEN /\ resp' = Response("pickup", u, "", 500, "Failed to schedule pickup", NoBody, calls)
                  /\ UNCHANGED order
             ELSE /\ order' = IF ship THEN saved ELSE order
                  /\ resp' = IF Uncaught(fx) # {}
                             THEN Response("pickup", u, "", 500, "Failed to schedule pickup", NoBody,
                                           calls \cup effects)
                             ELSE Response("pickup", u, "", 200, "Pickup scheduled", scheduled,
                                           calls \cup effects)
  /\ UNCHANGED <<stock, orderCount, returnReq, seller, remote>>

PickupRun(u, k) ==
  \E pk \in env.pickupReplies :
    LET failed == ~pk.ok /\ ~TreatedAsScheduled(pk.err) IN
    \E sv \in IF failed THEN {"ok"}
              ELSE SaveOutcomes({"shipment"} \cup
                                IF AdvanceOnPickup(order.status) THEN {"order"} ELSE {}) :
      \E fx \in IF ~failed /\ sv = "ok"
                 THEN {f \cap PickupEffects(AdvanceOnPickup(order.status)) : f \in env.effectFailures}
                 ELSE {{}} :
        PickupBody(u, k, pk, sv, fx)

SchedulePickup(u) ==
  /\ IF FindShipment(u) = 0
     THEN /\ resp' = Response("pickup", u, "", 404, "Shipment not found", NoBody, {})
          /\ UNCHANGED <<order, shipments, stock, orderCount, returnReq, seller, remote, budget>>
     ELSE /\ Len(shipments[FindShipment(u)].statusHistory) < MaxShipHist
          /\ PickupRun(u, FindShipment(u))
  /\ UNCHANGED <<inflight, env>>

\* ---------------------------------------------------------------- POST /shipping/serviceability
\* the couriers the provider offers, with their rates in tenths of a rupee
CourierOffers ==
  { [courierId |-> 7, rate |-> 120], [courierId |-> 9, rate |-> 40], [courierId |-> 11, rate |-> 50] }

\* shippingBudget in rupees: -1 stands for null (the seller bears the shipping)
ShippingBudget(doc) ==
  IF doc.shippingPaidBy = "customer"
  THEN (IF doc.actualShippingCost # 0 THEN doc.actualShippingCost ELSE doc.shippingCost)
  ELSE -1

Unfiltered(couriers, shippingBudget) == couriers

\* the couriers returned: within the budget when the customer paid a positive one
WithinBudget(couriers, shippingBudget) ==
  IF shippingBudget > 0 THEN {c \in couriers : c.rate <= shippingBudget * 10} ELSE couriers

\*   ok: checkServiceability answers
Serviceability(u) ==
  /\ \E ok \in IF order.sellerId = u /\ seller.pickupPincode # "" /\ order.deliveryPincode # ""
               THEN BOOLEAN ELSE {TRUE} :
       resp' =
         IF order.sellerId # u THEN Response("serviceability", u, "", 403, "Not your order", NoBody, {})
         ELSE IF seller.pickupPincode = ""
         THEN Response("serviceability", u, "", 400, "Set your pickup address pincode", NoBody, {})
         ELSE IF order.deliveryPincode = ""
         THEN Response("serviceability", u, "", 400, "Order has no delivery pincode", NoBody, {})
         ELSE IF ~ok
         THEN Response("serviceability", u, "", 500, "Failed to check serviceability", NoBody,
                       {<<"checkServiceability", 500>>})
         ELSE Response("serviceability", u, "", 200, "",
                       [couriers |-> WithinBudget(CourierOffers, ShippingBudget(order)),
                        shippingBudget |-> ShippingBudget(order)],
                       {<<"checkServiceability", 500>>})
  /\ UNCHANGED <<order, shipments, stock, orderCount, returnReq, seller, remote, budget, env, inflight>>

\* ---------------------------------------------------------------- GET /shipping/:orderId/track
\*   tr: trackByAwb answers
Track(u) ==
  /\ LET k == FindShipment(u) IN
     IF k = 0
     THEN resp' = Response("track", u, "", 404, "No shipment", NoBody, {})
     ELSE IF shipments[k].awbCode = ""
     THEN resp' = Response("track", u, "", 200, "", shipments[k], {})
     ELSE \E tr \in BOOLEAN :
            resp' = Response("track", u, IF tr THEN "tracking" ELSE "", 200, "", shipments[k],
                             {<<"trackByAwb", shipments[k].shiprocketShipmentId>>})
  /\ UNCHANGED <<order, shipments, stock, orderCount, returnReq, seller, remote, budget, env, inflight>>

\* ---------------------------------------------------------------- GET /shipping/:orderId/label
\*   lb: generateLabel reply ("throw", "noUrl", "url")
Label(u) ==
  /\ LET k == FindShipment(u) IN
     IF k = 0
     THEN /\ resp' = Response("label", u, "", 404, "No shipment", NoBody, {})
          /\ UNCHANGED <<shipments, budget>>
     ELSE \E lb \in {"throw", "noUrl", "url"} :
            \E sv \in IF lb = "throw" THEN {"ok"} ELSE SaveOutcomes({"shipment"}) :
              LET labelUrl == IF lb = "url" THEN "label.pdf" ELSE ""
                  calls == {<<"generateLabel", shipments[k].shiprocketShipmentId>>}
              IN
              /\ budget' = IF sv = "ok" THEN budget ELSE budget - 1
              /\ IF lb = "throw" \/ sv = "shipment"
                 THEN /\ resp' = Response("label", u, "", 500, "Failed", NoBody, calls)
                      /\ UNCHANGED shipments
                 ELSE /\ shipments' = [shipments EXCEPT ![k].labelUrl = labelUrl]
                      /\ resp' = Response("label", u, labelUrl, 200, "", NoBody, calls)
  /\ UNCHANGED <<order, stock, orderCount, returnReq, seller, remote, env, inflight>>

\* ---------------------------------------------------------------- PUT /returns/:id/approve
ReturnRejectInAnyState(op, u, from) ==
  IF returnReq.status = "none" THEN Response(op, u, "", 404, "Return request not found", NoBody, {})
  ELSE IF returnReq.sellerId # u THEN Response(op, u, "", 403, "Not your return request", NoBody, {})
  ELSE NoBody

\* the checks of the three return handlers; from: the statuses the handler accepts
ReturnReject(op, u, from) ==
  IF returnReq.status = "none" THEN Response(op, u, "", 404, "Return request not found", NoBody, {})
  ELSE IF returnReq.sellerId # u THEN Response(op, u, "", 403, "Not your return request", NoBody, {})
  ELSE IF returnReq.status \notin from THEN Response(op, u, "", 400, "InvalidReturnState", NoBody, {})
  ELSE NoBody

ApproveBody(u, sv) ==
  LET approved == [returnReq EXCEPT
                     !.status = "approved",
                     !.statusHistory = Append(@, ReturnEntry("approved", u, "Approved by seller"))]
  IN
  /\ budget' = IF sv = "ok" THEN budget ELSE budget - 1
  /\ IF sv = "return"
     THEN /\ resp' = Response("approve", u, "", 500, "Server error", NoBody, {})
          /\ UNCHANGED <<order, returnReq>>
     ELSE /\ returnReq' = approved
          /\ IF sv = "order"
             THEN /\ resp' = Response("approve", u, "", 500, "Server error", NoBody, {})
                  /\ UNCHANGED order
             ELSE /\ order' = [order EXCEPT
                                 !.returnStatus = "approved",
                                 !.statusHistory = Append(@, HistoryEntry("return_approved", u))]
                  /\ resp' = Response("approve", u, "", 200, "Return approved", approved, {})
  /\ UNCHANGED <<shipments, stock, orderCount, seller, remote>>

ApproveReturn(u) ==
  /\ IF ReturnReject("approve", u, {"requested"}) # NoBody
     THEN /\ resp' = ReturnReject("approve", u, {"requested"})
          /\ UNCHANGED <<order, shipments, stock, orderCount, returnReq, seller, remote, budget>>
     ELSE \E sv \in SaveOutcomes({"return", "order"}) : ApproveBody(u, sv)
  /\ UNCHANGED <<inflight, env>>

\* ---------------------------------------------------------------- PUT /returns/:id/reject
RejectBody(u, reason, sv) ==
  LET rejected == [returnReq EXCEPT
                     !.status = "rejected",
                     !.rejectionReason = reason,
                     !.resolvedAt = TRUE,
                     !.statusHistory = Append(@, ReturnEntry("rejected", u, reason))]
  IN
  /\ budget' = IF sv = "ok" THEN budget ELSE budget - 1
  /\ IF sv = "return"
     THEN /\ resp' = Response("reject", u, reason, 500, "Server error", NoBody, {})
          /\ UNCHANGED <<order, returnReq>>
     ELSE /\ returnReq' = rejected
          /\ IF sv = "order"
             THEN /\ resp' = Response("reject", u, reason, 500, "Server error", NoBody, {})
                  /\ UNCHANGED order
             ELSE /\ order' = [order EXCEPT
                                 !.returnStatus = "rejected",
                                 !.statusHistory = Append(@, HistoryEntry("return_rejected", u))]
                  /\ resp' = Response("reject", u, reason, 200, "Return rejected", rejected, {})
  /\ UNCHANGED <<shipments, stock, orderCount, seller, remote>>

RejectReturn(u, reason) ==
  /\ IF reason = ""
     THEN /\ resp' = Response("reject", u, reason, 400, "Rejection reason required", NoBody, {})
          /\ UNCHANGED <<order, shipments, stock, orderCount, returnReq, seller, remote, budget>>
     ELSE IF ReturnReject("reject", u, {"requested"}) # NoBody
     THEN /\ resp' = ReturnReject("reject", u, {"requested"})
          /\ UNCHANGED <<order, shipments, stock, orderCount, returnReq, seller, remote, budget>>
     ELSE \E sv \in SaveOutcomes({"return", "order"}) : RejectBody(u, reason, sv)
  /\ UNCHANGED <<inflight, env>>

\* ---------------------------------------------------------------- PUT /returns/:id/received
RefundNeverDue(req, doc) == FALSE

\* `returnReq.type === 'return' && order && order.cashfreeOrderId && returnReq.refundAmount > 0`
RefundDue(req, doc) == req.type = "return" /\ doc.cashfreeOrderId # "" /\ req.refundAmount > 0

\*   rf: createRefund succeeds   sv: which save rejects
ReceivedBody(u, rf, sv) ==
  LET refunding == RefundDue(returnReq, order)
      exchange == ~refunding /\ returnReq.type = "exchange"
      received == [returnReq EXCEPT
                     !.status = "received",
                     !.statusHistory = Append(@, ReturnEntry("received", u, "Item received by seller"))]
      refunded == [received EXCEPT
                     !.refundId = "refund_return",
                     !.status = "refunded",
                     !.statusHistory = Append(@, ReturnEntry("refunded", u, "Refund initiated"))]
      \* the catch block of the refund attempt, entered from createRefund or from order.save
      caught == [(IF rf THEN refunded ELSE received) EXCEPT
                     !.statusHistory = Append(@, ReturnEntry("received", "system", "Refund failed"))]
      exchanged == [received EXCEPT
                     !.status = "exchanged",
                     !.statusHistory = Append(@, ReturnEntry("exchanged", u, "Exchange item received"))]
      final == [(IF refunding THEN (IF rf /\ sv # "order" THEN refunded ELSE caught)
                 ELSE IF exchange THEN exchanged ELSE received)
                 EXCEPT !.resolvedAt = TRUE]
      calls == IF refunding THEN {<<"createRefund", returnReq.refundAmount>>} ELSE {}
  IN
  /\ budget' = IF sv = "ok" THEN budget ELSE budget - 1
  /\ remote' = [remote EXCEPT !.returnRefunds = IF refunding /\ rf THEN @ + 1 ELSE @]
  /\ order' =
       IF sv = "order" THEN order
       ELSE IF refunding /\ rf
       THEN [order EXCEPT
               !.returnStatus = "completed",
               !.paymentStatus = "refund_pending",
               !.refundId = "refund_return",
               !.statusHistory = Append(@, HistoryEntry("return_refunded", u))]
       ELSE IF exchange
       THEN [order EXCEPT
               !.returnStatus = "completed",
               !.statusHistory = Append(@, HistoryEntry("exchange_completed", u))]
       ELSE order
  /\ IF sv = "return" \/ (sv = "order" /\ exchange)
     THEN /\ resp' = Response("received", u, "", 500, "Server error", NoBody, calls)
          /\ UNCHANGED returnReq
     ELSE /\ returnReq' = final
          /\ resp' = Response("received", u, "", 200, "Item received and processed", final, calls)
  /\ UNCHANGED <<shipments, stock, orderCount, seller>>

ReceivedRun(u) ==
  LET refunding == RefundDue(returnReq, order)
      exchange == ~refunding /\ returnReq.type = "exchange"
  IN
  \E rf \in IF refunding THEN env.refundReplies ELSE {TRUE} :
    \E sv \in SaveOutcomes({"return"} \cup IF (refunding /\ rf) \/ exchange THEN {"order"} ELSE {}) :
      ReceivedBody(u, rf, sv)

MarkReceived(u) ==
  /\ IF ReturnReject("received", u, {"approved", "shipped_back"}) # NoBody
     THEN /\ resp' = ReturnReject("received", u, {"approved", "shipped_back"})
          /\ UNCHANGED <<order, shipments, stock, orderCount, returnReq, seller, remote, budget>>
     ELSE ReceivedRun(u)
  /\ UNCHANGED <<inflight, env>>

\* ---------------------------------------------------------------- the customer and the courier
\* the customer-facing flow opens a return or exchange on a delivered order
RequestReturn(type, amount) ==
  /\ <<type, amount>> \in env.returns
  /\ order.status = "delivered"
  /\ returnReq.status = "none"
  /\ returnReq' = [NoReturn EXCEPT
                     !.status = "requested", !.type = type, !.refundAmount = amount,
                     !.statusHistory = << ReturnEntry("requested", "customer", "") >>]
  /\ resp' = Response("customer", "customer", "return", 0, "", NoBody, {})
  /\ UNCHANGED <<order, shipments, stock, orderCount, seller, remote, budget, env, inflight>>

\* the customer ships the approved item back
ShipBack ==
  /\ returnReq.status = "approved"
  /\ returnReq' = [returnReq EXCEPT
                     !.status = "shipped_back",
                     !.statusHistory = Append(@, ReturnEntry("shipped_back", "customer", ""))]
  /\ resp' = Response("customer", "customer", "shipped_back", 0, "", NoBody, {})
  /\ UNCHANGED <<order, shipments, stock, orderCount, seller, remote, budget, env, inflight>>

CourierStatuses == << "picked_up", "in_transit", "out_for_delivery", "delivered" >>

\* index in CourierStatuses, 0 before the courier has the package
CourierRank(st) ==
  IF \E i \in 1 .. Len(CourierStatuses) : CourierStatuses[i] = st
  THEN CHOOSE i \in 1 .. Len(CourierStatuses) : CourierStatuses[i] = st
  ELSE 0

\* tracking sync: the courier moves the booked package on
CourierProgress(st) ==
  /\ \E k \in 1 .. Len(shipments) :
       /\ shipments[k].shiprocketOrderId # 0
       /\ shipments[k].status # "cancelled"
       /\ CourierRank(st) = CourierRank(shipments[k].status) + 1
       /\ shipments' = [shipments EXCEPT ![k].status = st]
  /\ resp' = Response("courier", "courier", st, 0, "", NoBody, {})
  /\ UNCHANGED <<order, stock, orderCount, returnReq, seller, remote, budget, env, inflight>>

\* ---------------------------------------------------------------- requests suspended at an await
\* A request loads its documents, is suspended at the await that follows, and
\* later runs to its end on the documents it loaded.
Suspend(s, op, u, arg, existing) ==
  /\ inflight[s].served < MaxServed
  /\ inflight' = [inflight EXCEPT ![s] = [pc |-> op, served |-> @.served + 1, user |-> u, arg |-> arg,
                                          doc |-> order, existing |-> existing]]
  /\ UNCHANGED <<order, shipments, stock, orderCount, returnReq, seller, remote, budget, env, resp>>

Refuse(response) ==
  /\ resp' = response
  /\ UNCHANGED <<order, shipments, stock, orderCount, returnReq, seller, remote, budget, env, inflight>>

Resume(s) ==
  /\ inflight' = [inflight EXCEPT ![s] = Idle(@.served)]
  /\ UNCHANGED env

BeginStatus(s, u, status) ==
  /\ inflight[s].pc = "idle"
  /\ IF StatusReject(u, status) # NoBody
     THEN Refuse(StatusReject(u, status))
     ELSE Suspend(s, "status", u, status, 0)

FinishStatus(s) ==
  /\ inflight[s].pc = "status"
  /\ UpdateStatusRun(inflight[s].user, inflight[s].doc, inflight[s].arg)
  /\ Resume(s)

BeginShip(s, u) ==
  /\ inflight[s].pc = "idle"
  /\ IF ShipReject(u) # NoBody
     THEN Refuse(ShipReject(u))
     ELSE Suspend(s, "ship", u, "", 0)

FinishShip(s, trk) ==
  /\ inflight[s].pc = "ship"
  /\ ShipRun(inflight[s].user, inflight[s].doc, trk)
  /\ Resume(s)

BeginCreate(s, u, body) ==
  /\ inflight[s].pc = "idle"
  /\ IF CreateReject(u) # NoBody
     THEN Refuse(CreateReject(u))
     ELSE Suspend(s, "create", u, body, FindShipmentOfOrder)

FinishCreate(s) ==
  /\ inflight[s].pc = "create"
  /\ CreateRun(inflight[s].user, inflight[s].existing, inflight[s].arg)
  /\ Resume(s)

\* the seller's order and shipping requests, and the courier
Next ==
  \/ \E u \in Actors, status \in OrderStatuses : UpdateStatus(u, status)
  \/ \E u \in Actors, trk \in TrackingInputs : ShipOrder(u, trk)
  \/ \E u \in Actors, body \in CreateBodies : CreateShipment(u, body)
  \/ \E u \in Actors, rate \in CourierRates : AssignCourier(u, 7, rate)
  \/ \E u \in Actors : SchedulePickup(u)
  \/ \E st \in {"picked_up", "in_transit", "out_for_delivery", "delivered"} : CourierProgress(st)

\* the seller's requests, returns included, and the customer
NextReturns ==
  \/ \E u \in Actors, status \in OrderStatuses : UpdateStatus(u, status)
  \/ \E u \in Actors, trk \in TrackingInputs : ShipOrder(u, trk)
  \/ \E u \in Actors, body \in CreateBodies : CreateShipment(u, body)
  \/ \E u \in Actors, rate \in CourierRates : AssignCourier(u, 7, rate)
  \/ \E u \in Actors : SchedulePickup(u)
  \/ \E u \in Actors : ApproveReturn(u)
  \/ \E u \in Actors, reason \in {"", "damaged by customer"} : RejectReturn(u, reason)
  \/ \E u \in Actors : MarkReceived(u)
  \/ \E kind \in ReturnKinds : RequestReturn(kind[1], kind[2])
  \/ ShipBack

\* every route of the router that touches the order, requested by its owner
\* and by another seller (the label only by the other seller: the owner's
\* label changes nothing another seller's request depends on); the
\* customer's return
NextTenant ==
  \/ \E u \in Tenants, status \in OrderStatuses : UpdateStatus(u, status)
  \/ \E u \in Tenants, trk \in TrackingInputs : ShipOrder(u, trk)
  \/ \E u \in Tenants : Serviceability(u)
  \/ \E u \in Tenants, body \in CreateBodies : CreateShipment(u, body)
  \/ \E u \in Tenants, rate \in CourierRates : AssignCourier(u, 7, rate)
  \/ \E u \in Tenants : SchedulePickup(u)
  \/ \E u \in Tenants : Track(u)
  \/ Label(Intruder)
  \/ \E u \in Tenants : ApproveReturn(u)
  \/ \E u \in Tenants, reason \in {"", "damaged by customer"} : RejectReturn(u, reason)
  \/ \E u \in Tenants : MarkReceived(u)
  \/ \E kind \in ReturnKinds : RequestReturn(kind[1], kind[2])
  \/ ShipBack

Spec == Init /\ [][Next]_vars

SpecTenant == InitTenant /\ [][NextTenant]_vars

\* the seller's order and shipping requests with any courier rate
NextCost ==
  \/ \E u \in Actors, status \in OrderStatuses : UpdateStatus(u, status)
  \/ \E u \in Actors, trk \in TrackingInputs : ShipOrder(u, trk)
  \/ \E u \in Actors : Serviceability(u)
  \/ \E u \in Actors, body \in CreateBodies : CreateShipment(u, body)
  \/ \E u \in Actors, rate \in AllCourierRates : AssignCourier(u, 7, rate)
  \/ \E u \in Actors : SchedulePickup(u)

SpecCost == InitCost /\ [][NextCost]_vars

SpecReturns == InitReturns /\ [][NextReturns]_vars

\* the seller's order and shipping requests
NextNotify ==
  \/ \E u \in Actors, status \in OrderStatuses : UpdateStatus(u, status)
  \/ \E u \in Actors, trk \in TrackingInputs : ShipOrder(u, trk)
  \/ \E u \in Actors, body \in CreateBodies : CreateShipment(u, body)
  \/ \E u \in Actors, rate \in CourierRates : AssignCourier(u, 7, rate)
  \/ \E u \in Actors : SchedulePickup(u)

SpecNotify == InitNotify /\ [][NextNotify]_vars

SpecFail == InitFail /\ [][Next]_vars

\* status, ship and create requests of the seller, interleaved at their awaits
NextConc ==
  \/ \E s \in Slots, u \in Actors, status \in OrderStatuses : BeginStatus(s, u, status)
  \/ \E s \in Slots : FinishStatus(s)
  \/ \E s \in Slots, u \in Actors : BeginShip(s, u)
  \/ \E s \in Slots, trk \in TrackingInputs : FinishShip(s, trk)
  \/ \E s \in Slots, u \in Actors, body \in CreateBodies : BeginCreate(s, u, body)
  \/ \E s \in Slots : FinishCreate(s)

SpecConc == InitConc /\ [][NextConc]_vars

\* the seller's settings, the verification check and the shipment requests
NextPickup ==
  \/ \E u \in Actors : SaveSettings(u)
  \/ \E u \in Actors : VerifyPickup(u)
  \/ \E u \in Actors, body \in CreateBodies : CreateShipment(u, body)

SpecPickup == InitPickup /\ [][NextPickup]_vars

\* the owner's status updates and return handling and the customer's return,
\* while up to MaxSaveFailures saves reject
NextReturnFail ==
  \/ \E u \in Actors, status \in OrderStatuses : UpdateStatus(u, status)
  \/ \E u \in Actors : ApproveReturn(u)
  \/ \E u \in Actors : MarkReceived(u)
  \/ \E kind \in ReturnKinds : RequestReturn(kind[1], kind[2])
  \/ ShipBack

SpecReturnFail == InitFail /\ [][NextReturnFail]_vars

\* create requests with any weight and dimensions, one at a time, against a
\* provider that replies in full
NextClamp ==
  \/ \E u \in Actors, body \in AllCreateBodies : BeginCreate(1, u, body)
  \/ FinishCreate(1)

SpecClamp == InitConc /\ [][NextClamp]_vars

\* ================================================================ properties

\* the edges of the order lifecycle
AllowedEdges ==
  { <<"pending", "confirmed">>, <<"pending", "cancelled">>,
    <<"confirmed", "processing">>, <<"confirmed", "shipped">>, <<"confirmed", "cancelled">>,
    <<"processing", "shipped">>, <<"processing", "cancelled">>,
    <<"shipped", "delivered">> }

StatusChanged == order'.status # order.status

\* the step is a cancel request of the seller
CancelRequested == resp'.op = "status" /\ resp'.arg = "cancelled"

\* the order's Shipment is with the courier
InCustody ==
  /\ Len(shipments) > 0
  /\ shipments[1].status \in {"picked_up", "in_transit", "out_for_delivery", "delivered"}

\* the order's Shipment carries a remote order id
RemotelyCreated == Len(shipments) > 0 /\ shipments[1].shiprocketOrderId # 0

Called(r, name) == \E c \in r.calls : c[1] = name

\* C1: over every operation, the persisted order status changes only along
\* the lifecycle's edges; delivered and cancelled are never left.
C1_StatusFollowsEdges ==
  [][StatusChanged => <<order.status, order'.status>> \in AllowedEdges]_vars

\* C2: a request that was suspended between loading the order and saving it
\* succeeds only if the persisted status is still the one it loaded: of two
\* interleaved mutually exclusive requests the second to write fails.
C2_NoLostUpdate ==
  [][\A s \in Slots :
       (inflight[s].pc \in {"status", "ship"} /\ inflight'[s].pc = "idle" /\ resp'.code = 200)
         => order.status = inflight[s].doc.status]_vars

\* C3: a successful cancel adds each line item's quantity to its product's
\* stock; no sequence of requests restores an item more than once; a cancel
\* request on a cancelled order fails and leaves the stock alone.
C3_RestoredExactlyOnce ==
  [][/\ (CancelRequested /\ resp'.code = 200)
          => \A p \in Products : stock'[p] = stock[p] + QuantityOf(p)
     /\ \A p \in Products : stock'[p] <= QuantityOf(p)
     /\ (CancelRequested /\ order.status = "cancelled")
          => (resp'.code = 400 /\ stock' = stock)]_vars

\* C4 as stated: a cancel request while the Shipment is with the courier
\* always fails with the cancellation-blocked error and leaves the status.
C4_AlwaysCancellationBlocked ==
  [][(CancelRequested /\ InCustody)
       => (resp'.code = 400 /\ resp'.msg = "CancellationBlocked"
           /\ order'.status = order.status)]_vars

\* C4 amended: a cancel request while the Shipment is with the courier always
\* fails and leaves the order as it is: with the cancellation-blocked error
\* when the order's status allows cancellation, with the invalid-transition
\* error when it does not.
C4_CancelRefusedInCustody ==
  [][(CancelRequested /\ InCustody)
       => /\ resp'.code = 400
          /\ resp'.msg = IF order.status \in {"pending", "confirmed", "processing"}
                         THEN "CancellationBlocked" ELSE "InvalidTransition"
          /\ order' = order]_vars

C4_Witness ==
  /\ resp.op = "status" /\ resp.arg = "cancelled" /\ resp.msg = "CancellationBlocked"
  /\ Len(shipments) > 0 /\ shipments[1].status = "delivered"
  /\ order.status = "processing"

\* C5: stock has been restored for the order if and only if the order is
\* persisted as cancelled, also when a save of the cancel request fails.
C5_RestoredIffCancelled ==
  \A p \in Products : (stock[p] > 0) <=> (order.status = "cancelled")

\* C6 as stated: createShipment on an order whose Shipment carries a remote
\* order id is rejected with that Shipment, changes nothing and makes no
\* remote creation call.
C6_SecondCreateReturnsExisting ==
  [][(resp'.op = "create" /\ RemotelyCreated)
       => /\ resp'.code = 400 /\ resp'.msg = "Shipment already created"
          /\ resp'.body = shipments[1]
          /\ shipments' = shipments /\ order' = order
          /\ remote'.creates = remote.creates
          /\ ~Called(resp', "createShiprocketOrder")]_vars

\* C6 amended: createShipment by the order's seller on an order whose
\* Shipment carries a remote order id is rejected, changes nothing and makes
\* no remote creation call; it returns the existing Shipment when the order
\* is paid, and the not-paid error without it when the order is not.
C6_SecondCreateRejected ==
  [][(resp'.op = "create" /\ RemotelyCreated)
       => /\ resp'.code = 400
          /\ IF order.paymentStatus = "paid"
             THEN resp'.msg = "Shipment already created" /\ resp'.body = shipments[1]
             ELSE resp'.msg = "Order not paid" /\ resp'.body = NoBody
          /\ shipments' = shipments /\ order' = order
          /\ remote'.creates = remote.creates
          /\ ~Called(resp', "createShiprocketOrder")]_vars

C6_Witness ==
  /\ resp.op = "create" /\ resp.msg = "Shipment already created"
  /\ Len(shipments) = 1 /\ resp.body = shipments[1]
  /\ remote.creates = 1

\* C7: at most one remote shipment is ever created for the order, and at most
\* one Shipment record that is not cancelled exists, whatever save fails.
C7_OneRemoteShipment ==
  /\ remote.creates <= 1
  /\ Cardinality({k \in 1 .. Len(shipments) : shipments[k].status # "cancelled"}) <= 1

PaymentRank(p) ==
  CASE p = "pending" -> 0 [] p = "paid" -> 1 [] p = "refund_pending" -> 2 [] p = "refunded" -> 3

\* C8: paymentStatus only moves forward (paid, refund_pending, refunded), and
\* only in a request that attempted a refund.
C8_PaymentOnlyForward ==
  [][/\ PaymentRank(order'.paymentStatus) >= PaymentRank(order.paymentStatus)
     /\ order'.paymentStatus # order.paymentStatus => Called(resp', "createRefund")]_vars

\* C9: a cancel request that passes the checks on a paid order with a gateway
\* order succeeds and persists the order as cancelled whether or not the
\* refund succeeds: refunded with the refund id when the gateway made the
\* refund, refund_pending without a refund id when it did not.
C9_CancelCommitsEitherWay ==
  [][(CancelRequested /\ resp'.code # 400
        /\ order.paymentStatus = "paid" /\ order.cashfreeOrderId # "")
       => /\ resp'.code = 200
          /\ order'.status = "cancelled"
          /\ Called(resp', "createRefund")
          /\ \/ /\ remote'.cancelRefunds = remote.cancelRefunds + 1
                /\ order'.paymentStatus = "refunded"
                /\ order'.refundId = "refund_cancel"
             \/ /\ remote'.cancelRefunds = remote.cancelRefunds
                /\ order'.paymentStatus = "refund_pending"
                /\ order'.refundId = ""]_vars

C9_Witness ==
  /\ resp.op = "status" /\ resp.arg = "cancelled" /\ resp.code = 200
  /\ Called(resp, "createRefund")
  /\ order.status = "cancelled" /\ order.paymentStatus = "refund_pending"
  /\ order.cashfreeOrderId # "" /\ order.refundId = ""
  /\ remote.cancelRefunds = 0

\* C10: every change of the order's status appends exactly one history entry
\* with the new status and the acting seller in the same write; entries are
\* never removed or rewritten; the history grows only by transitions.
C10_TransitionAppendsHistory ==
  [][/\ StatusChanged
          => order'.statusHistory =
               Append(order.statusHistory, [status |-> order'.status, changedBy |-> resp'.user])
     /\ Len(order'.statusHistory) >= Len(order.statusHistory)
     /\ SubSeq(order'.statusHistory, 1, Len(order.statusHistory)) = order.statusHistory
     /\ ~StatusChanged => order'.statusHistory = order.statusHistory]_vars

\* C11: after every operation the last entry of the order's statusHistory
\* carries the order's current status.
C11_LastEntryIsCurrentStatus ==
  order.statusHistory[Len(order.statusHistory)].status = order.status

\* C12: a request of another seller reads and changes nothing of the owner's
\* Order, Shipment or ReturnRequest: it is refused, its response carries none
\* of the documents, it reaches no provider or gateway call, and every
\* document is as it was before the request.
C12_TenantIsolation ==
  [][resp'.user = Intruder
       => /\ resp'.code \in {400, 403, 404}
          /\ resp'.body = NoBody
          /\ resp'.calls = {}
          /\ UNCHANGED <<order, shipments, returnReq, stock, orderCount, seller, remote>>]_vars

C12_Witness ==
  /\ resp.user = Intruder /\ resp.op = "assign" /\ resp.code = 404
  /\ Len(shipments) = 1 /\ shipments[1].sellerId = Owner /\ shipments[1].shiprocketShipmentId # 0
  /\ shipments[1].courierId = 0

\* C13: a status update whose target is not allowed from the order's status,
\* or a cancel blocked by the courier's custody, is rejected with a 400; a
\* rejected status update leaves the order (its history and paymentStatus
\* included), the Shipment, the stock and the order counters as they were and
\* makes no provider or gateway call.
C13_RejectedUpdateChangesNothing ==
  [][/\ (resp'.op = "status"
          /\ (<<order.status, resp'.arg>> \notin AllowedEdges \/ (resp'.arg = "cancelled" /\ InCustody)))
         => resp'.code = 400
     /\ (resp'.op = "status" /\ resp'.code = 400)
         => /\ UNCHANGED <<order, shipments, stock, orderCount, remote>>
            /\ resp'.calls = {}]_vars

C13_Witness ==
  /\ resp.op = "status" /\ resp.arg = "delivered" /\ resp.code = 400
  /\ resp.msg = "InvalidTransition"
  /\ order.status = "confirmed"

\* C14: from a paid order in confirmed with no Shipment, and with the
\* provider answering in full, createShipment leaves a Shipment in created and
\* the order in processing; assignCourier then records the courier on it; and
\* schedulePickup then leaves the Shipment in pickup_scheduled with that
\* courier and the order in shipped.
C14_CreateAssignPickup ==
  [][/\ (/\ resp'.op = "create" /\ resp'.code = 200 /\ resp'.arg = ""
         /\ order.status = "confirmed" /\ order.paymentStatus = "paid" /\ shipments = << >>)
         => /\ Len(shipments') = 1
            /\ shipments'[1].status = "created"
            /\ shipments'[1].shiprocketShipmentId # 0
            /\ order'.status = "processing"
     /\ (/\ resp'.op = "assign" /\ resp'.code = 200
         /\ order.status = "processing" /\ Len(shipments) = 1 /\ shipments[1].status = "created")
         => /\ shipments'[1].courierId = 7
            /\ shipments'[1].status = "created"
            /\ order'.status = "processing"
     /\ (/\ resp'.op = "pickup" /\ resp'.code = 200 /\ <<"schedulePickupReply", 0>> \in resp'.calls
         /\ order.status = "processing" /\ Len(shipments) = 1
         /\ shipments[1].status = "created" /\ shipments[1].courierId = 7)
         => /\ shipments'[1].status = "pickup_scheduled"
            /\ shipments'[1].courierId = 7
            /\ order'.status = "shipped"]_vars

C14_Witness ==
  /\ resp.op = "pickup" /\ resp.code = 200 /\ <<"schedulePickupReply", 0>> \in resp.calls
  /\ order.status = "shipped"
  /\ order.statusHistory = << [status |-> "pending", changedBy |-> "system"],
                              [status |-> "confirmed", changedBy |-> Owner],
                              [status |-> "shipped", changedBy |-> Owner] >>
  /\ Len(shipments) = 1
  /\ shipments[1].statusHistory = << "created", "courier_assigned", "pickup_scheduled" >>
  /\ shipments[1].status = "pickup_scheduled" /\ shipments[1].courierId = 7
  /\ shipments[1].awbCode # ""

\* C15: a Shipment with a courier recorded (courierId or awbCode) has a remote
\* shipment id; assignCourier calls the provider's courier assignment only
\* with a remote shipment id, and not at all while the Shipment has none.
C15_CourierNeedsShipmentId ==
  [][/\ \A k \in 1 .. Len(shipments') :
          (shipments'[k].courierId # 0 \/ shipments'[k].awbCode # "")
            => shipments'[k].shiprocketShipmentId # 0
     /\ resp'.op = "assign"
          => \A c \in resp'.calls : c[1] = "assignCourier" => c[2] # 0
     /\ (resp'.op = "assign" /\ Len(shipments') > 0 /\ shipments'[1].shiprocketShipmentId = 0)
          => (~Called(resp', "assignCourier") /\ shipments' = shipments)]_vars

C15_Witness ==
  /\ resp.op = "assign" /\ resp.code = 400 /\ resp.msg = "Shipment ID missing"
  /\ ~Called(resp, "assignCourier")
  /\ Len(shipments) = 1 /\ shipments[1].shiprocketOrderId # 0
  /\ shipments[1].shiprocketShipmentId = 0
  /\ shipments[1].courierId = 0 /\ shipments[1].awbCode = ""

\* C16: assignCourier on a Shipment with a remote order id and no remote
\* shipment id first asks the provider for the order's details; when the
\* reply carries a shipment id, the id is persisted on the Shipment and the
\* courier assignment is called with it; when it carries none, or the query
\* fails, the request fails with the missing-shipment-id error and nothing
\* else happens. A Shipment that has its id is not re-queried.
C16_SelfHealBeforeFailing ==
  [][(resp'.op = "assign" /\ Len(shipments) > 0)
       => IF shipments[1].shiprocketShipmentId = 0 /\ shipments[1].shiprocketOrderId # 0
          THEN /\ <<"getShiprocketOrderDetails", shipments[1].shiprocketOrderId>> \in resp'.calls
               /\ \E c \in resp'.calls :
                    /\ c[1] = "orderDetailsReply"
                    /\ IF c[2] > 0
                       THEN /\ shipments'[1].shiprocketShipmentId = c[2]
                            /\ <<"assignCourier", c[2]>> \in resp'.calls
                            /\ resp'.msg # "Shipment ID missing"
                       ELSE /\ resp'.code = 400 /\ resp'.msg = "Shipment ID missing"
                            /\ ~Called(resp', "assignCourier")
                            /\ shipments' = shipments /\ order' = order
          ELSE ~Called(resp', "getShiprocketOrderDetails")]_vars

C16_Witness ==
  /\ resp.op = "assign" /\ resp.code = 200
  /\ \E c \in resp.calls : c[1] = "orderDetailsReply" /\ c[2] > 0
  /\ Called(resp, "assignCourier")
  /\ Len(shipments) = 1 /\ shipments[1].shiprocketShipmentId # 0
  /\ shipments[1].courierId = 7

\* C17 as stated: a successful assignCourier sets the order's
\* actualShippingCost to the supplied rate exactly when the rate is positive
\* and the seller bears the shipping, and leaves it otherwise.
C17_CostSetToRate ==
  [][resp'.op = "assign"
       => IF resp'.code = 200 /\ resp'.arg > 0 /\ order.shippingPaidBy = "seller"
          THEN order'.actualShippingCost * 10 = resp'.arg
          ELSE order'.actualShippingCost = order.actualShippingCost]_vars

\* C17 amended: a successful assignCourier sets the order's
\* actualShippingCost to the supplied rate rounded to the nearest whole
\* rupee exactly when the rate is positive and the seller bears the shipping;
\* in every other case it leaves it; nothing else of the order changes.
C17_CostSetToRoundedRate ==
  [][resp'.op = "assign"
       => IF resp'.code = 200 /\ resp'.arg > 0 /\ order.shippingPaidBy = "seller"
          THEN order' = [order EXCEPT !.actualShippingCost = (resp'.arg + 5) \div 10]
          ELSE order' = order]_vars

C17_Witness ==
  /\ resp.op = "assign" /\ resp.code = 200 /\ resp.arg = 125
  /\ order.shippingPaidBy = "seller" /\ order.actualShippingCost = 13
  /\ Len(shipments) = 1 /\ shipments[1].shippingCharge = 13

\* C18: when the provider's schedulePickup fails with an error saying the
\* pickup is already scheduled, the request ends exactly as when the provider
\* succeeds: 200, the Shipment in pickup_scheduled with one history entry,
\* returned in the response, and the order advanced as on a success.
C18_AlreadyScheduledIsSuccess ==
  [][(/\ resp'.op = "pickup" /\ Len(shipments) > 0
      /\ (<<"schedulePickupReply", 0>> \in resp'.calls \/ <<"schedulePickupReply", 4>> \in resp'.calls))
       => /\ resp'.code = 200
          /\ shipments' = [shipments EXCEPT
                             ![1].status = "pickup_scheduled",
                             ![1].pickupScheduledAt = TRUE,
                             ![1].statusHistory = Append(@, "pickup_scheduled")]
          /\ resp'.body = shipments'[1]
          /\ order'.status = IF order.status \in {"confirmed", "processing"}
                             THEN "shipped" ELSE order.status]_vars

C18_Witness ==
  /\ resp.op = "pickup" /\ resp.code = 200
  /\ <<"schedulePickupReply", 4>> \in resp.calls
  /\ Len(shipments) = 1 /\ shipments[1].status = "pickup_scheduled"
  /\ shipments[1].pickupScheduledAt
  /\ order.status = "shipped"

\* C19: a successful schedulePickup moves the order to shipped, with the
\* Shipment's courier and airway bill as tracking info and one history entry,
\* when the order is confirmed or processing; in every other status, and when
\* the request fails, it leaves the order as it is.
C19_PickupAdvancesOnlyIfAllowed ==
  [][resp'.op = "pickup"
       => IF resp'.code = 200 /\ order.status \in {"confirmed", "processing"}
          THEN order' = [order EXCEPT
                           !.status = "shipped",
                           !.trackingInfo = [courierName |-> shipments[1].courierName,
                                             trackingNumber |-> shipments[1].awbCode],
                           !.statusHistory = Append(@, [status |-> "shipped", changedBy |-> resp'.user])]
          ELSE order' = order]_vars

C19_Witness ==
  /\ resp.op = "pickup" /\ resp.code = 200
  /\ order.status = "cancelled"
  /\ order.statusHistory[Len(order.statusHistory)].status = "cancelled"
  /\ order.trackingInfo = NoBody

\* the edges of the return lifecycle
ReturnEdges ==
  { <<"requested", "approved">>, <<"requested", "rejected">>,
    <<"approved", "received">>, <<"approved", "shipped_back">>,
    <<"shipped_back", "received">>,
    <<"received", "refunded">>, <<"received", "exchanged">> }

\* C20: a ReturnRequest's status changes only along the edges of the return
\* lifecycle, markReceived passing through received to refunded or exchanged
\* in one request; approve and reject succeed only from requested, markReceived
\* only from approved or shipped_back; a refused request changes nothing; a
\* request in rejected, refunded or exchanged never changes again.
C20_ReturnFollowsEdges ==
  [][/\ (returnReq.status # "none" /\ returnReq'.status # returnReq.status)
          => \/ <<returnReq.status, returnReq'.status>> \in ReturnEdges
             \/ /\ resp'.op = "received"
                /\ <<returnReq.status, "received">> \in ReturnEdges
                /\ <<"received", returnReq'.status>> \in ReturnEdges
                /\ returnReq'.statusHistory[Len(returnReq.statusHistory) + 1].status = "received"
     /\ (resp'.op = "approve" /\ resp'.code = 200)
          => (returnReq.status = "requested" /\ returnReq'.status = "approved")
     /\ (resp'.op = "reject" /\ resp'.code = 200)
          => (returnReq.status = "requested" /\ returnReq'.status = "rejected")
     /\ (resp'.op = "received" /\ resp'.code = 200)
          => /\ returnReq.status \in {"approved", "shipped_back"}
             /\ returnReq'.status \in {"received", "refunded", "exchanged"}
     /\ (resp'.op \in {"approve", "reject", "received"} /\ resp'.code # 200)
          => returnReq' = returnReq
     /\ returnReq.status \in {"rejected", "refunded", "exchanged"}
          => returnReq' = returnReq]_vars

C20_Witness ==
  /\ resp.op = "received" /\ resp.code = 200
  /\ returnReq.status = "refunded"
  /\ Len(returnReq.statusHistory) = 5
  /\ returnReq.statusHistory[3].status = "shipped_back"
  /\ returnReq.statusHistory[4].status = "received"
  /\ returnReq.statusHistory[5].status = "refunded"

\* C21: markReceived on a return request with a positive refundAmount whose
\* order has a gateway reference attempts the refund; when the gateway makes
\* it, the request ends in refunded with its refundId set and the order's
\* paymentStatus is refund_pending; when it fails, the request ends in
\* received with a refund-failure note in its history, no refundId is set on
\* the request or the order, and the order's paymentStatus is unchanged.
C21_RefundOutcomeOnReceived ==
  [][(/\ resp'.op = "received"
      /\ returnReq.status \in {"approved", "shipped_back"}
      /\ returnReq.type = "return" /\ returnReq.refundAmount > 0 /\ order.cashfreeOrderId # "")
       => /\ <<"createRefund", returnReq.refundAmount>> \in resp'.calls
          /\ IF remote'.returnRefunds = remote.returnRefunds + 1
             THEN /\ returnReq'.status = "refunded"
                  /\ returnReq'.refundId # ""
                  /\ order'.paymentStatus = "refund_pending"
             ELSE /\ remote'.returnRefunds = remote.returnRefunds
                  /\ returnReq'.status = "received"
                  /\ \E i \in 1 .. Len(returnReq'.statusHistory) :
                       /\ i > Len(returnReq.statusHistory)
                       /\ returnReq'.statusHistory[i].note = "Refund failed"
                  /\ returnReq'.refundId = ""
                  /\ order'.refundId = order.refundId
                  /\ order'.paymentStatus = order.paymentStatus]_vars

C21_Witness ==
  /\ resp.op = "received" /\ resp.code = 200
  /\ <<"createRefund", 5>> \in resp.calls
  /\ remote.returnRefunds = 0
  /\ returnReq.status = "received" /\ returnReq.refundId = ""
  /\ returnReq.statusHistory[Len(returnReq.statusHistory)].note = "Refund failed"
  /\ order.paymentStatus = "paid" /\ order.refundId = ""

\* C22: after a successful markReceived the request is refunded (type return)
\* or exchanged (type exchange) unless the request attempted a refund and the
\* attempt failed: received is not a resting state of a request for which no
\* refund attempt failed.
C22_ReceivedOnlyAfterFailedRefund ==
  [][(resp'.op = "received" /\ resp'.code = 200)
       => \/ returnReq'.status = (IF returnReq.type = "return" THEN "refunded" ELSE "exchanged")
          \/ /\ returnReq'.status = "received"
             /\ Called(resp', "createRefund")
             /\ remote'.returnRefunds = remote.returnRefunds]_vars
\* an email or a notification of the request failed
SideEffectFailed ==
  \E c \in resp'.calls :
    /\ c[1] \in {"sendDeliveredEmail", "sendShippedEmail",
                 "sendCorporateOrderStatusEmail", "createNotification"}
    /\ c[2] = -1

\* C23: a status update, a manual ship or a schedulePickup in which an email
\* or the customer's notification fails still answers 200, and the order is
\* persisted in the requested status (shipped for ship and pickup) with the
\* history entry of the transition, the Shipment of a pickup in
\* pickup_scheduled.
C23_SideEffectFailureIsSwallowed ==
  [][(resp'.op \in {"status", "ship", "pickup"} /\ SideEffectFailed)
       => /\ resp'.code = 200
          /\ order'.status = (IF resp'.op = "status" THEN resp'.arg ELSE "shipped")
          /\ order'.statusHistory =
               Append(order.statusHistory, [status |-> order'.status, changedBy |-> resp'.user])
          /\ resp'.op = "pickup" => shipments'[1].status = "pickup_scheduled"]_vars

C23_Witness ==
  /\ resp.op = "status" /\ resp.arg = "delivered" /\ resp.code = 200
  /\ <<"sendDeliveredEmail", -1>> \in resp.calls
  /\ <<"sendCorporateOrderStatusEmail", -1>> \in resp.calls
  /\ <<"createNotification", -1>> \in resp.calls
  /\ order.status = "delivered" /\ order.deliveredAt
  /\ order.statusHistory[Len(order.statusHistory)].status = "delivered"
\* C24: a cancel request on an order whose Shipment carries a remote order id
\* and is not with the courier completes whether the provider's remote cancel
\* succeeds or fails, with the same local result: the Shipment cancelled with
\* one history entry, each item's quantity back in stock, the order persisted
\* as cancelled.
C24_RemoteCancelFailureDoesNotBlock ==
  [][(/\ CancelRequested
      /\ order.status \in {"pending", "confirmed", "processing"}
      /\ RemotelyCreated
      /\ shipments[1].status \notin {"picked_up", "in_transit", "out_for_delivery", "delivered"})
       => /\ \/ <<"cancelShiprocketOrderReply", 0>> \in resp'.calls
             \/ <<"cancelShiprocketOrderReply", -1>> \in resp'.calls
          /\ resp'.code = 200
          /\ shipments' = [shipments EXCEPT ![1].status = "cancelled",
                                            ![1].statusHistory = Append(@, "cancelled")]
          /\ stock' = [p \in {"p1", "p2"} |-> stock[p] + (IF p = "p1" THEN 1 ELSE 2)]
          /\ order'.status = "cancelled" /\ order'.cancelledAt
          /\ order'.statusHistory = Append(order.statusHistory, [status |-> "cancelled", changedBy |-> resp'.user])]_vars

C24_Witness ==
  /\ resp.op = "status" /\ resp.arg = "cancelled" /\ resp.code = 200
  /\ <<"cancelShiprocketOrderReply", -1>> \in resp.calls
  /\ remote.cancelled = {}
  /\ Len(shipments) = 1 /\ shipments[1].status = "cancelled"
  /\ shipments[1].statusHistory = << "created", "courier_assigned", "cancelled" >>
  /\ stock = [p \in {"p1", "p2"} |-> IF p = "p1" THEN 1 ELSE 2]
  /\ order.status = "cancelled"
\* C25: createShipment on an order whose paymentStatus is not paid is
\* rejected with a 400 before any provider call; no Shipment is created or
\* changed and the order, the seller and the provider are as before.
C25_UnpaidOrderIsNotShipped ==
  [][(resp'.op = "create" /\ order.paymentStatus # "paid")
       => /\ resp'.code = 400 /\ resp'.msg = "Order not paid"
          /\ resp'.calls = {}
          /\ UNCHANGED <<order, shipments, seller, remote, stock, orderCount>>]_vars

C25_Witness ==
  /\ resp.op = "create" /\ resp.code = 400 /\ resp.msg = "Order not paid"
  /\ order.paymentStatus = "refund_pending" /\ order.status = "cancelled"
  /\ shipments = << >>
  /\ remote.creates = 0
\* C26 as stated: for a customer-borne order the serviceability check returns
\* exactly the provider's couriers whose rate does not exceed the amount the
\* customer paid for shipping; for a seller-borne order it returns them all.
C26_FilteredByAmountPaid ==
  [][(resp'.op = "serviceability" /\ resp'.code = 200)
       => resp'.body.couriers =
            IF order.shippingPaidBy = "customer"
            THEN {c \in { [courierId |-> 7, rate |-> 120], [courierId |-> 9, rate |-> 40],
                          [courierId |-> 11, rate |-> 50] } : c.rate <= order.shippingCost * 10}
            ELSE { [courierId |-> 7, rate |-> 120], [courierId |-> 9, rate |-> 40],
                   [courierId |-> 11, rate |-> 50] }]_vars

\* C26 amended: for a customer-borne order on which the customer paid a
\* positive amount for shipping, the serviceability check returns exactly the
\* provider's couriers whose rate does not exceed that amount; for a
\* seller-borne order, and for a customer-borne order with nothing paid for
\* shipping, it returns all the provider's couriers.
C26_FilteredByPositiveAmountPaid ==
  [][(resp'.op = "serviceability" /\ resp'.code = 200)
       => resp'.body.couriers =
            IF order.shippingPaidBy = "customer" /\ order.shippingCost > 0
            THEN {c \in { [courierId |-> 7, rate |-> 120], [courierId |-> 9, rate |-> 40],
                          [courierId |-> 11, rate |-> 50] } : c.rate <= order.shippingCost * 10}
            ELSE { [courierId |-> 7, rate |-> 120], [courierId |-> 9, rate |-> 40],
                   [courierId |-> 11, rate |-> 50] }]_vars

C26_Witness ==
  /\ resp.op = "serviceability" /\ resp.code = 200
  /\ order.shippingPaidBy = "customer" /\ order.shippingCost = 5
  /\ resp.body.shippingBudget = 5
  /\ resp.body.couriers = { [courierId |-> 9, rate |-> 40], [courierId |-> 11, rate |-> 50] }
\* C27: whatever weight and dimensions a create request asks for (missing,
\* zero, negative and oversized ones included), the weight submitted to the
\* provider is between 50 and 50000 grams and each dimension between 1 and
\* 200 cm, a requested value inside its range is submitted unchanged, and the
\* Shipment stores the submitted values.
C27_ClampedToSafeBounds ==
  [][(inflight[1].pc = "create" /\ inflight'[1].pc = "idle"
        /\ Called(resp', "createShiprocketOrder"))
       => LET body == inflight[1].arg
              Sent(name, requested, lo, hi, stored) ==
                \E c \in resp'.calls :
                  /\ c[1] = name
                  /\ lo <= c[2] /\ c[2] <= hi
                  /\ (lo <= requested /\ requested <= hi) => c[2] = requested
                  /\ resp'.code = 200 => stored = c[2]
              sh == shipments'[1]
          IN  /\ Sent("createShiprocketOrder", body.weight, 50, 50000, sh.weight)
              /\ Sent("length", body.length, 1, 200, sh.dimensions.length)
              /\ Sent("breadth", body.width, 1, 200, sh.dimensions.width)
              /\ Sent("height", body.height, 1, 200, sh.dimensions.height)]_vars

C27_Witness ==
  /\ resp.op = "create" /\ resp.code = 200
  /\ <<"createShiprocketOrder", 50000>> \in resp.calls
  /\ Len(shipments) = 1
  /\ shipments[1].weight = 50000
  /\ shipments[1].dimensions = [length |-> 1, width |-> 10, height |-> 200]
\* C28: whenever the order is cancelled, each of its Shipments that carries a
\* remote order id is cancelled.
C28_CancelledOrderHasCancelledShipment ==
  order.status = "cancelled"
    => \A k \in 1 .. Len(shipments) :
         shipments[k].shiprocketOrderId # 0 => shipments[k].status = "cancelled"
\* C29: when the provider's schedulePickup fails with an error that does not
\* say the pickup is already scheduled ("Invalid pickup location", "Internal
\* error"), the request answers with a failure and the Shipment (status,
\* pickupScheduledAt, history) and the order are as before.
C29_PickupFailureIsReported ==
  [][(/\ resp'.op = "pickup"
      /\ (<<"schedulePickupReply", 1>> \in resp'.calls \/ <<"schedulePickupReply", 2>> \in resp'.calls))
       => /\ resp'.code = 500
          /\ shipments' = shipments
          /\ order' = order]_vars
\* C30: the cancel of a paid order with a gateway order asks the gateway for
\* a refund of min(totalAmount, order_amount) when the gateway's order query
\* reports an amount, and of totalAmount when the query fails or reports
\* none; the amount never exceeds totalAmount, and the refund is attempted
\* also when the query fails.
C30_RefundAmountIsCapped ==
  [][(CancelRequested /\ resp'.code = 200
        /\ order.paymentStatus = "paid" /\ order.cashfreeOrderId # "")
       => /\ \E a \in resp'.calls :
               /\ a[1] = "cashfreeOrderAmount"
               /\ <<"createRefund",
                     IF a[2] > 0 /\ a[2] < order.totalAmount THEN a[2] ELSE order.totalAmount>>
                     \in resp'.calls
          /\ \A c \in resp'.calls : c[1] = "createRefund" => c[2] <= order.totalAmount]_vars

C30_Witness ==
  /\ resp.op = "status" /\ resp.arg = "cancelled" /\ resp.code = 200
  /\ <<"cashfreeOrderAmount", -1>> \in resp.calls
  /\ <<"createRefund", 10>> \in resp.calls
  /\ order.totalAmount = 10
  /\ order.paymentStatus = "refunded" /\ remote.cancelRefunds = 1
\* C31: when the provider's creation reply carries an order id and no
\* shipment id, createShipment asks for the order's details; when the reply
\* still carries no shipment id, or the query fails, the request succeeds all
\* the same: the Shipment is persisted in created with the remote order id and
\* an empty shiprocketShipmentId, the order is moved to processing and the
\* response carries the warning; when the reply carries the id, the Shipment
\* has it and there is no warning.
C31_MissingShipmentIdIsNotFatal ==
  [][(resp'.op = "create" /\ Called(resp', "getShiprocketOrderDetails"))
       => /\ resp'.code = 200
          /\ Len(shipments') = 1
          /\ shipments'[1].status = "created"
          /\ shipments'[1].shiprocketOrderId # 0
          /\ resp'.body = shipments'[1]
          /\ order'.status = "processing"
          /\ \E c \in resp'.calls :
               /\ c[1] = "orderDetailsReply"
               /\ IF c[2] > 0
                  THEN shipments'[1].shiprocketShipmentId = c[2] /\ resp'.arg = ""
                  ELSE shipments'[1].shiprocketShipmentId = 0 /\ resp'.arg = "warning"]_vars

\* a Shipment created without its shipment id, healed by a later assignCourier
C31_Witness ==
  /\ resp.op = "assign" /\ resp.code = 200
  /\ \E c \in resp.calls : c[1] = "orderDetailsReply" /\ c[2] = 1
  /\ <<"assignCourier", 1>> \in resp.calls
  /\ Len(shipments) = 1
  /\ shipments[1].statusHistory = << "created", "courier_assigned" >>
  /\ shipments[1].shiprocketOrderId = 1 /\ shipments[1].shiprocketShipmentId = 1
  /\ shipments[1].awbCode # ""
  /\ order.status = "processing"
\* C32: after every createShipment, assignCourier, schedulePickup or cancel
\* that writes a Shipment, the last entry of the Shipment's statusHistory is
\* the Shipment's status.
C32_ShipmentHistoryEndsInStatus ==
  [][(resp'.op \in {"create", "assign", "pickup", "status"} /\ shipments' # shipments)
       => \A k \in 1 .. Len(shipments') :
            shipments'[k] # (IF k <= Len(shipments) THEN shipments[k] ELSE NoBody)
              => shipments'[k].statusHistory[Len(shipments'[k].statusHistory)]
                   = shipments'[k].status]_vars

\* C33: createShipment calls the provider's createShiprocketOrder only if the
\* seller's stored shiprocketPickupVerified flag is set or the lookup made in
\* the same request reports the registered location as phone-verified; a
\* request that passed the order checks without either is answered 400 with
\* code PICKUP_UNVERIFIED and leaves every Shipment and the Order as they were.
C33_NoShipmentFromUnverifiedPickup ==
  [][resp'.op = "create"
       => LET verified == seller.shiprocketPickupVerified
                          \/ <<"pickupLocationReply", 1>> \in resp'.calls
          IN
          /\ Called(resp', "createShiprocketOrder") => verified
          /\ (~verified /\ CreateReject(resp'.user) = NoBody)
               => /\ resp'.code = 400
                  /\ resp'.msg = "PICKUP_UNVERIFIED"
                  /\ ~Called(resp', "createShiprocketOrder")
                  /\ shipments' = shipments
                  /\ order' = order]_vars

\* a seller with a registered location whose phone the lookup reports as not
\* verified was refused
C33_Witness ==
  /\ resp.op = "create"
  /\ resp.msg = "PICKUP_UNVERIFIED"
  /\ <<"pickupLocationReply", 0>> \in resp.calls
  /\ seller.shiprocketPickupLocation = "warehouse"
  /\ ~seller.shiprocketPickupVerified
  /\ shipments = <<>>

\* C34: over any sequence of cancel requests on the order, retries after a
\* rejected order save included, the gateway's createRefund succeeds at most
\* once for the cancellation.
C34_AtMostOneCancelRefund == remote.cancelRefunds <= 1

\* C35: over any sequence of markReceived requests on the ReturnRequest,
\* retries after a rejected save of the request included, the gateway's
\* createRefund succeeds at most once, and once it has succeeded the persisted
\* request is no longer in approved or shipped_back.
C35_AtMostOneReturnRefund ==
  /\ remote.returnRefunds <= 1
  /\ remote.returnRefunds >= 1 => returnReq.status \notin {"approved", "shipped_back"}

\* C36: a Shipment's status never moves backwards: no request of a seller
\* takes a Shipment out of cancelled, and schedulePickup never sets a Shipment
\* that is picked_up, in_transit, out_for_delivery or delivered back to
\* pickup_scheduled.
C36_ShipmentStatusNeverMovesBack ==
  [][\A k \in 1 .. Len(shipments) :
       /\ (resp'.op \in {"status", "ship", "create", "assign", "pickup"}
            /\ shipments[k].status = "cancelled")
           => shipments'[k].status = "cancelled"
       /\ (resp'.op = "pickup"
            /\ shipments[k].status \in {"picked_up", "in_transit", "out_for_delivery", "delivered"})
           => shipments'[k].status # "pickup_scheduled"]_vars

\* C37: after every step a Shipment in pickup_scheduled has a non-empty
\* shiprocketShipmentId and a non-empty awbCode, and an order that
\* schedulePickup moved to shipped has a non-empty tracking number.
C37_PickupOnlyAfterCourierAssigned ==
  [][/\ \A k \in 1 .. Len(shipments') :
          shipments'[k].status = "pickup_scheduled"
            => /\ shipments'[k].shiprocketShipmentId # 0
               /\ shipments'[k].awbCode # ""
     /\ (resp'.op = "pickup" /\ order'.status = "shipped" /\ order.status # "shipped")
          => order'.trackingInfo.trackingNumber # ""]_vars

====
